---- MODULE Spec2Model ----
(***************************************************************************)
(* A model of Autocycler's unitig graph: double-stranded adjacency lists   *)
(* and their mutation (create_link / delete_link), path queries, and the   *)
(* repeat-expansion simplifier that shifts sequence between unitigs, GFA   *)
(* saving and loading, and the construction of the graph from the k-mers   *)
(* of the input contigs.                                                   *)
(*                                                                         *)
(* Strands are booleans as in the source: TRUE is strand::FORWARD, FALSE   *)
(* is strand::REVERSE.  A unitig object (an Rc<RefCell<Unitig>>) is an     *)
(* object id; adjacency entries (UnitigStrand) hold the object id and a    *)
(* strand, and read the unitig's current number through it.                *)
(***************************************************************************)
EXTENDS Integers, Sequences, FiniteSets, TLC

VARIABLES
    unitigs,            \* UnitigGraph.unitigs: vector of unitig objects
    unitig_index,       \* UnitigGraph.unitig_index: number -> unitig object
    k_size,             \* UnitigGraph.k_size
    number,             \* Unitig.number, per object
    forward_seq,        \* Unitig.forward_seq, per object
    reverse_seq,        \* Unitig.reverse_seq, per object
    depth,              \* Unitig.depth, per object
    forward_next,       \* Unitig.forward_next, per object
    forward_prev,       \* Unitig.forward_prev, per object
    reverse_next,       \* Unitig.reverse_next, per object
    reverse_prev,       \* Unitig.reverse_prev, per object
    forward_positions,  \* Unitig.forward_positions, per object
    reverse_positions,  \* Unitig.reverse_positions, per object
    sequences,          \* the Vec<Sequence> handed along with the graph
    pc,                 \* position of the running operation
    idx,                \* expand_repeats: index of the unitig being visited
    total_shifted_seq,  \* expand_repeats: bytes shifted so far in this pass
    fixed_starts,       \* expand_repeats: unitigs whose start must not change
    fixed_ends,         \* expand_repeats: unitigs whose end must not change
    failure,            \* "" or the failed assertion that stopped the program
    calls,              \* the calls made so far with the adjacency before each
    spelled,            \* per sequence, the bytes its path spelled at the start
    gfa_files,          \* the files save_gfa wrote, each with the graph it saved
    assemblies,         \* the contigs of the input assemblies, in loading order
    kmer_graph,         \* KmerGraph: k_size and the map from k-mer to positions
    threads,            \* load_sequences: the size of the rayon thread pool
    all_seqs,           \* sequence_end_repair: the copy of all sequences' bytes
    worker,             \* sequence_end_repair: per sequence, where its closure is
    assemblies_dir,     \* compress: what is at the path of the input directory
    autocycler_dir      \* compress: what is at the path of the output directory

adjVars == <<forward_next, forward_prev, reverse_next, reverse_prev>>
seqVars == <<forward_seq, reverse_seq, forward_positions, reverse_positions>>
idVars  == <<unitigs, unitig_index, k_size, number, depth, sequences>>
passVars == <<idx, total_shifted_seq, fixed_starts, fixed_ends>>
buildVars == <<assemblies, kmer_graph, threads, all_seqs, worker, assemblies_dir,
              autocycler_dir>>
vars    == <<idVars, seqVars, adjVars, pc, passVars, failure, calls, spelled,
            gfa_files, buildVars>>

FORWARD == TRUE
REVERSE == FALSE

(***************************************************************************)
(* Bounds of the model.                                                    *)
(***************************************************************************)
NumUnitigs == 2
MaxCalls   == 3

(***************************************************************************)
(* Helpers on sequences.                                                   *)
(***************************************************************************)
Range(s) == {s[i] : i \in DOMAIN s}

Count(s, e) == Cardinality({i \in DOMAIN s : s[i] = e})

\* Two lists equal as multisets.
SameBag(s, t) == \A e \in Range(s) \cup Range(t) : Count(s, e) = Count(t, e)

Abs(x) == IF x < 0 THEN -x ELSE x

\* The orders in which a list can hold n elements.
Orders(n) == {[i \in 1 .. n |-> p[i]] : p \in Permutations(1 .. n)}

(***************************************************************************)
(* Adjacency.  Adj is the four lists of every unitig object, as a record,  *)
(* so that an operation made of several calls can be composed.             *)
(***************************************************************************)
Adj == [forward_next |-> forward_next, forward_prev |-> forward_prev,
        reverse_next |-> reverse_next, reverse_prev |-> reverse_prev]

UnitigStrand(u, s) == [unitig |-> u, strand |-> s]

Next_(adj, u, s) == IF s THEN adj.forward_next[u] ELSE adj.reverse_next[u]
Prev_(adj, u, s) == IF s THEN adj.forward_prev[u] ELSE adj.reverse_prev[u]

SetNext(adj, u, s, list) ==
    IF s THEN [adj EXCEPT !.forward_next[u] = list]
         ELSE [adj EXCEPT !.reverse_next[u] = list]

SetPrev(adj, u, s, list) ==
    IF s THEN [adj EXCEPT !.forward_prev[u] = list]
         ELSE [adj EXCEPT !.reverse_prev[u] = list]

\* UnitigGraph::link_exists
link_exists(adj, a_num, a_strand, b_num, b_strand) ==
    /\ a_num \in DOMAIN unitig_index
    /\ \E i \in DOMAIN Next_(adj, unitig_index[a_num], a_strand) :
          LET next == Next_(adj, unitig_index[a_num], a_strand)[i]
          IN  number[next.unitig] = b_num /\ next.strand = b_strand

\* UnitigGraph::link_exists_prev
link_exists_prev(adj, a_num, a_strand, b_num, b_strand) ==
    /\ b_num \in DOMAIN unitig_index
    /\ \E i \in DOMAIN Prev_(adj, unitig_index[b_num], b_strand) :
          LET prev == Prev_(adj, unitig_index[b_num], b_strand)[i]
          IN  number[prev.unitig] = a_num /\ prev.strand = a_strand

\* The four checks check_links makes for a link a -> b, and the index check.
LinkChecks(adj, a_num, a_strand, b_num, b_strand) ==
    /\ link_exists(adj, a_num, a_strand, b_num, b_strand)
    /\ link_exists_prev(adj, a_num, a_strand, b_num, b_strand)
    /\ link_exists(adj, b_num, ~b_strand, a_num, ~a_strand)
    /\ link_exists_prev(adj, b_num, ~b_strand, a_num, ~a_strand)

\* UnitigGraph::check_links: TRUE when it returns, FALSE when it panics.
check_links(adj) ==
    \A i \in DOMAIN unitigs :
        LET a == unitigs[i] IN
        /\ \A j \in DOMAIN adj.forward_next[a] :
              LET b == adj.forward_next[a][j] IN
              /\ LinkChecks(adj, number[a], FORWARD, number[b.unitig], b.strand)
              /\ number[b.unitig] \in DOMAIN unitig_index
        /\ \A j \in DOMAIN adj.reverse_next[a] :
              LET b == adj.reverse_next[a][j] IN
              /\ LinkChecks(adj, number[a], REVERSE, number[b.unitig], b.strand)
              /\ number[b.unitig] \in DOMAIN unitig_index
        /\ \A j \in DOMAIN adj.forward_prev[a] :
              LET b == adj.forward_prev[a][j] IN
              /\ LinkChecks(adj, number[b.unitig], b.strand, number[a], FORWARD)
              /\ number[b.unitig] \in DOMAIN unitig_index
        /\ \A j \in DOMAIN adj.reverse_prev[a] :
              LET b == adj.reverse_prev[a][j] IN
              /\ LinkChecks(adj, number[b.unitig], b.strand, number[a], REVERSE)
              /\ number[b.unitig] \in DOMAIN unitig_index

\* UnitigGraph::get_link_count
get_link_count(adj) ==
    LET RECURSIVE Sum(_)
        Sum(i) == IF i = 0 THEN 0
                  ELSE Sum(i - 1) + Len(adj.forward_next[unitigs[i]])
                                  + Len(adj.reverse_next[unitigs[i]])
    IN  Sum(Len(unitigs))

\* UnitigGraph::get_total_length
get_total_length ==
    LET RECURSIVE Sum(_)
        Sum(i) == IF i = 0 THEN 0 ELSE Sum(i - 1) + Len(forward_seq[unitigs[i]])
    IN  Sum(Len(unitigs))

StrandOf(signed_num) == IF signed_num > 0 THEN FORWARD ELSE REVERSE

\* The list a delete_link_one_way call takes the end unitig's entries from.
DeletePrevStrand(start_strand, end_strand) == start_strand

\* UnitigGraph::delete_link_one_way
delete_link_one_way(adj, start_num, end_num) ==
    LET start_strand == StrandOf(start_num)
        end_strand   == StrandOf(end_num)
        start        == unitig_index[Abs(start_num)]
        end          == unitig_index[Abs(end_num)]
        next_kept    == SelectSeq(Next_(adj, start, start_strand),
                            LAMBDA c : ~(number[c.unitig] = Abs(end_num)
                                         /\ c.strand = end_strand))
        adj1         == SetNext(adj, start, start_strand, next_kept)
        prev_strand  == DeletePrevStrand(start_strand, end_strand)
        prev_kept    == SelectSeq(Prev_(adj1, end, prev_strand),
                            LAMBDA c : ~(number[c.unitig] = Abs(start_num)
                                         /\ c.strand = start_strand))
    IN  SetPrev(adj1, end, prev_strand, prev_kept)

\* UnitigGraph::delete_link
delete_link(adj, start_num, end_num) ==
    delete_link_one_way(delete_link_one_way(adj, start_num, end_num),
                        -end_num, -start_num)

\* UnitigGraph::create_link_one_way
create_link_one_way(adj, start_num, end_num) ==
    LET start_strand == StrandOf(start_num)
        end_strand   == StrandOf(end_num)
        start        == unitig_index[Abs(start_num)]
        end          == unitig_index[Abs(end_num)]
        adj1         == SetNext(adj, start, start_strand,
                            Append(Next_(adj, start, start_strand),
                                   UnitigStrand(end, end_strand)))
    IN  SetPrev(adj1, end, end_strand,
                Append(Prev_(adj1, end, end_strand),
                       UnitigStrand(start, start_strand)))

\* UnitigGraph::create_link
create_link(adj, start_num, end_num) ==
    IF start_num # -end_num
    THEN create_link_one_way(create_link_one_way(adj, start_num, end_num),
                             -end_num, -start_num)
    ELSE create_link_one_way(adj, start_num, end_num)

(***************************************************************************)
(* Link mutation on a loaded graph.  The graph starts as from_gfa_lines    *)
(* leaves it for a file with NumUnitigs segment lines and no link lines;   *)
(* every other graph with sound links is reached by create_link calls.     *)
(***************************************************************************)
Ids == 1 .. NumUnitigs

SignedNumbers == {n \in -NumUnitigs .. NumUnitigs : n # 0}

NoLinks == [u \in Ids |-> <<>>]

InitLinks ==
    /\ unitigs = [i \in Ids |-> i]
    /\ unitig_index = [n \in Ids |-> n]
    /\ k_size = 3
    /\ number = [u \in Ids |-> u]
    /\ forward_seq = [u \in Ids |-> <<"A">>]
    /\ reverse_seq = [u \in Ids |-> <<"T">>]
    /\ depth = [u \in Ids |-> 1]
    /\ forward_next = NoLinks
    /\ forward_prev = NoLinks
    /\ reverse_next = NoLinks
    /\ reverse_prev = NoLinks
    /\ forward_positions = [u \in Ids |-> <<>>]
    /\ reverse_positions = [u \in Ids |-> <<>>]
    /\ sequences = <<>>
    /\ pc = "loaded"
    /\ idx = 0
    /\ total_shifted_seq = 0
    /\ fixed_starts = {}
    /\ fixed_ends = {}
    /\ failure = ""
    /\ calls = <<>>
    /\ spelled = <<>>
    /\ gfa_files = <<>>
    /\ assemblies = <<>>
    /\ kmer_graph = [k_size |-> 3, kmers |-> <<>>]
    /\ assemblies_dir = "dir"
    /\ autocycler_dir = "dir"
    /\ threads = 1
    /\ all_seqs = <<>>
    /\ worker = <<>>

SetAdj(adj) ==
    /\ forward_next' = adj.forward_next
    /\ forward_prev' = adj.forward_prev
    /\ reverse_next' = adj.reverse_next
    /\ reverse_prev' = adj.reverse_prev

Call(op, a, b) ==
    [op |-> op, a |-> a, b |-> b, before |-> Adj,
     total_length |-> get_total_length, link_count |-> get_link_count(Adj)]

CreateLink ==
    /\ pc = "loaded"
    /\ Len(calls) < MaxCalls
    /\ \E a \in SignedNumbers, b \in SignedNumbers :
          /\ SetAdj(create_link(Adj, a, b))
          /\ calls' = Append(calls, Call("create_link", a, b))
    /\ UNCHANGED <<idVars, seqVars, pc, passVars, failure, spelled, gfa_files, buildVars>>

DeleteLink ==
    /\ pc = "loaded"
    /\ Len(calls) < MaxCalls
    /\ \E a \in SignedNumbers, b \in SignedNumbers :
          /\ SetAdj(delete_link(Adj, a, b))
          /\ calls' = Append(calls, Call("delete_link", a, b))
    /\ UNCHANGED <<idVars, seqVars, pc, passVars, failure, spelled, gfa_files, buildVars>>

NextLinks == CreateLink \/ DeleteLink

SpecLinks == InitLinks /\ [][NextLinks]_vars

(***************************************************************************)
(* Sequences of bases and the sequence operations of a unitig.  Units is   *)
(* the sequence and position fields of every unitig object, as a record,   *)
(* with the failure (if any) that stopped the operation working on them.   *)
(***************************************************************************)
Complement(b) ==
    CASE b = "A" -> "T" [] b = "T" -> "A" [] b = "C" -> "G" [] b = "G" -> "C"
      [] OTHER -> b

reverse_complement(seq) ==
    [i \in 1 .. Len(seq) |-> Complement(seq[Len(seq) + 1 - i])]

Reverse(seq) == [i \in 1 .. Len(seq) |-> seq[Len(seq) + 1 - i]]

Front(seq) == SubSeq(seq, 1, Len(seq) - 1)

starts_with(seq, prefix) ==
    /\ Len(prefix) <= Len(seq)
    /\ SubSeq(seq, 1, Len(prefix)) = prefix

Units ==
    [failure |-> failure, shifted |-> 0,
     forward_seq |-> forward_seq, reverse_seq |-> reverse_seq,
     forward_positions |-> forward_positions,
     reverse_positions |-> reverse_positions]

Position(seq_id, strand, pos) == [seq_id |-> seq_id, strand |-> strand, pos |-> pos]

MovePositions(positions, amount) ==
    [i \in DOMAIN positions |-> [positions[i] EXCEPT !.pos = @ + amount]]

Fail(units, what) == [units EXCEPT !.failure = what]

length(units, u) == Len(units.forward_seq[u])

get_seq(units, u, strand) ==
    IF strand THEN units.forward_seq[u] ELSE units.reverse_seq[u]

RemoveRefused == "remove_seq would bring the length below 1"

remove_seq_from_start(units, u, amount) ==
    IF units.failure # "" THEN units
    ELSE IF amount >= length(units, u) THEN Fail(units, RemoveRefused)
    ELSE [units EXCEPT
            !.forward_seq[u] = SubSeq(@, amount + 1, Len(@)),
            !.reverse_seq[u] = SubSeq(@, 1, Len(@) - amount),
            !.forward_positions[u] = MovePositions(@, amount)]

remove_seq_from_end(units, u, amount) ==
    IF units.failure # "" THEN units
    ELSE IF amount >= length(units, u) THEN Fail(units, RemoveRefused)
    ELSE [units EXCEPT
            !.forward_seq[u] = SubSeq(@, 1, Len(@) - amount),
            !.reverse_seq[u] = SubSeq(@, amount + 1, Len(@)),
            !.reverse_positions[u] = MovePositions(@, amount)]

add_seq_to_start(units, u, seq) ==
    IF units.failure # "" THEN units
    ELSE [units EXCEPT
            !.forward_seq[u] = seq \o @,
            !.reverse_seq[u] = @ \o reverse_complement(seq),
            !.forward_positions[u] = MovePositions(@, -Len(seq))]

add_seq_to_end(units, u, seq) ==
    IF units.failure # "" THEN units
    ELSE [units EXCEPT
            !.forward_seq[u] = @ \o seq,
            !.reverse_seq[u] = reverse_complement(seq) \o @,
            !.reverse_positions[u] = MovePositions(@, -Len(seq))]

(***************************************************************************)
(* The repeat-expansion simplifier (graph_simplification.rs).              *)
(***************************************************************************)
RECURSIVE ShrinkPrefix(_, _)
\* while !seq.starts_with(&prefix) { prefix.pop(); ... }
ShrinkPrefix(prefix, seq) ==
    IF starts_with(seq, prefix) THEN prefix ELSE ShrinkPrefix(Front(prefix), seq)

RECURSIVE CommonPrefix(_, _, _)
CommonPrefix(seqs, i, prefix) ==
    IF i > Len(seqs) \/ prefix = <<>> THEN prefix
    ELSE CommonPrefix(seqs, i + 1, ShrinkPrefix(prefix, seqs[i]))

get_common_start_seq(units, list) ==
    LET seqs == [i \in DOMAIN list |-> get_seq(units, list[i].unitig, list[i].strand)]
    IN  IF seqs = <<>> THEN <<>> ELSE CommonPrefix(seqs, 1, seqs[1])

get_common_end_seq(units, list) ==
    LET seqs == [i \in DOMAIN list |->
                    Reverse(get_seq(units, list[i].unitig, list[i].strand))]
    IN  IF seqs = <<>> THEN <<>> ELSE Reverse(CommonPrefix(seqs, 1, seqs[1]))

get_exclusive_inputs(adj, u) ==
    LET prevs == adj.forward_prev[u]
        exclusive(prev) ==
            LET prev_next_unitigs == Next_(adj, prev.unitig, prev.strand)
            IN  /\ Len(prev_next_unitigs) = 1
                /\ prev_next_unitigs[1].strand
                /\ number[prev_next_unitigs[1].unitig] = number[u]
    IN  IF \A i \in DOMAIN prevs : exclusive(prevs[i]) THEN prevs ELSE <<>>

get_exclusive_outputs(adj, u) ==
    LET nexts == adj.forward_next[u]
        exclusive(next) ==
            LET next_prev_unitigs == Prev_(adj, next.unitig, next.strand)
            IN  /\ Len(next_prev_unitigs) = 1
                /\ next_prev_unitigs[1].strand
                /\ number[next_prev_unitigs[1].unitig] = number[u]
    IN  IF \A i \in DOMAIN nexts : exclusive(nexts[i]) THEN nexts ELSE <<>>

GuardPanic == "shift_sequence_1: remove(0) on an empty common_seq"
GuardHang  == "shift_sequence_2: the position guard loops forever"

Guarded(positions, common_seq, half_k) ==
    \E i \in DOMAIN positions : positions[i].pos <= Len(common_seq) + half_k

RECURSIVE PositionGuard1(_, _, _)
\* while let Some(_) = ...find(|p| p.pos <= len + half_k) { common_seq.remove(0); }
PositionGuard1(positions, common_seq, half_k) ==
    IF ~Guarded(positions, common_seq, half_k) THEN [failure |-> "", seq |-> common_seq]
    ELSE IF common_seq = <<>> THEN [failure |-> GuardPanic, seq |-> common_seq]
    ELSE PositionGuard1(positions, Tail(common_seq), half_k)

RECURSIVE PositionGuard2(_, _, _)
\* while let Some(_) = ...find(|p| p.pos <= len + half_k) { common_seq.pop(); }
PositionGuard2(positions, common_seq, half_k) ==
    IF ~Guarded(positions, common_seq, half_k) THEN [failure |-> "", seq |-> common_seq]
    ELSE IF common_seq = <<>> THEN [failure |-> GuardHang, seq |-> common_seq]
    ELSE PositionGuard2(positions, Front(common_seq), half_k)

leave_one_bp(units, sources, common_seq) ==
    \E i \in DOMAIN sources : length(units, sources[i].unitig) = Len(common_seq)

RECURSIVE RemoveFromSources1_WrongEnd(_, _, _, _)
\* A slip: the sources give up their bytes at the end away from the destination.
RemoveFromSources1_WrongEnd(units, sources, i, amount) ==
    IF i > Len(sources) THEN units
    ELSE RemoveFromSources1_WrongEnd(
            IF sources[i].strand THEN remove_seq_from_start(units, sources[i].unitig, amount)
                                 ELSE remove_seq_from_end(units, sources[i].unitig, amount),
            sources, i + 1, amount)

RECURSIVE RemoveFromSources1_FirstOnly(_, _, _, _)
\* A slip: only the first source gives up its bytes.
RemoveFromSources1_FirstOnly(units, sources, i, amount) ==
    IF i > 1 THEN units
    ELSE RemoveFromSources1_FirstOnly(
            IF sources[i].strand THEN remove_seq_from_end(units, sources[i].unitig, amount)
                                 ELSE remove_seq_from_start(units, sources[i].unitig, amount),
            sources, i + 1, amount)

RECURSIVE RemoveFromSources1(_, _, _, _)
RemoveFromSources1(units, sources, i, amount) ==
    IF i > Len(sources) THEN units
    ELSE RemoveFromSources1(
            IF sources[i].strand THEN remove_seq_from_end(units, sources[i].unitig, amount)
                                 ELSE remove_seq_from_start(units, sources[i].unitig, amount),
            sources, i + 1, amount)

RECURSIVE RemoveFromSources2(_, _, _, _)
RemoveFromSources2(units, sources, i, amount) ==
    IF i > Len(sources) THEN units
    ELSE RemoveFromSources2(
            IF sources[i].strand THEN remove_seq_from_start(units, sources[i].unitig, amount)
                                 ELSE remove_seq_from_end(units, sources[i].unitig, amount),
            sources, i + 1, amount)

\* A slip: the destination receives the common bytes at its end.
shift_sequence_1_IntoEnd(units, sources, destination, half_k) ==
    LET common_seq == get_common_end_seq(units, sources)
        left == IF leave_one_bp(units, sources, common_seq)
                    THEN Tail(common_seq) ELSE common_seq
        guarded == PositionGuard1(units.forward_positions[destination], left, half_k)
    IN  IF Len(common_seq) = 0 THEN units
        ELSE IF guarded.failure # "" THEN Fail(units, guarded.failure)
        ELSE IF Len(guarded.seq) = 0 THEN units
        ELSE [add_seq_to_end(
                 RemoveFromSources1(units, sources, 1, Len(guarded.seq)),
                 destination, guarded.seq)
              EXCEPT !.shifted = Len(guarded.seq)]

shift_sequence_1(units, sources, destination, half_k) ==
    LET common_seq == get_common_end_seq(units, sources)
        left == IF leave_one_bp(units, sources, common_seq)
                    THEN Tail(common_seq) ELSE common_seq
        guarded == PositionGuard1(units.forward_positions[destination], left, half_k)
    IN  IF Len(common_seq) = 0 THEN units
        ELSE IF guarded.failure # "" THEN Fail(units, guarded.failure)
        ELSE IF Len(guarded.seq) = 0 THEN units
        ELSE [add_seq_to_start(
                 RemoveFromSources1(units, sources, 1, Len(guarded.seq)),
                 destination, guarded.seq)
              EXCEPT !.shifted = Len(guarded.seq)]

shift_sequence_2(units, destination, sources, half_k) ==
    LET common_seq == get_common_start_seq(units, sources)
        left == IF leave_one_bp(units, sources, common_seq)
                    THEN Front(common_seq) ELSE common_seq
        guarded == PositionGuard2(units.reverse_positions[destination], left, half_k)
    IN  IF Len(common_seq) = 0 THEN units
        ELSE IF guarded.failure # "" THEN Fail(units, guarded.failure)
        ELSE IF Len(guarded.seq) = 0 THEN units
        ELSE [add_seq_to_end(
                 RemoveFromSources2(units, sources, 1, Len(guarded.seq)),
                 destination, guarded.seq)
              EXCEPT !.shifted = Len(guarded.seq)]

(***************************************************************************)
(* Path queries of the graph (unitig_graph.rs).  A path is a sequence of   *)
(* <<unitig number, strand>> pairs.                                        *)
(***************************************************************************)
StartAssert == "find_starting_unitig: assert_eq!(starting_unitigs.len(), 1)"

starting_unitigs(units, seq_id) ==
    LET starts(positions) ==
            {i \in DOMAIN positions :
                /\ positions[i].seq_id = seq_id
                /\ positions[i].strand
                /\ positions[i].pos = 0}
    IN  UNION {{<<i, FORWARD, j>> : j \in starts(units.forward_positions[unitigs[i]])}
               \cup
               {<<i, REVERSE, j>> : j \in starts(units.reverse_positions[unitigs[i]])}
               : i \in DOMAIN unitigs}

get_next_unitig(units, adj, seq_id, seq_strand, u, strand, pos) ==
    LET next_pos == pos + length(units, u)
        next_unitigs == Next_(adj, u, strand)
        matches(next) ==
            LET positions == IF next.strand THEN units.forward_positions[next.unitig]
                                            ELSE units.reverse_positions[next.unitig]
            IN  \E j \in DOMAIN positions :
                    /\ positions[j].seq_id = seq_id
                    /\ positions[j].strand = seq_strand
                    /\ positions[j].pos = next_pos
        found == {i \in DOMAIN next_unitigs : matches(next_unitigs[i])}
    IN  IF found = {} THEN [some |-> FALSE, next |-> UnitigStrand(u, strand), pos |-> pos]
        ELSE [some |-> TRUE,
              next |-> next_unitigs[CHOOSE i \in found : \A j \in found : i <= j],
              pos |-> next_pos]

RECURSIVE FollowPath(_, _, _, _, _, _)
FollowPath(units, adj, seq_id, u, strand, pos) ==
    LET step == get_next_unitig(units, adj, seq_id, FORWARD, u, strand, pos)
    IN  <<  <<number[u], strand>>  >> \o
        (IF step.some
            THEN FollowPath(units, adj, seq_id, step.next.unitig, step.next.strand, step.pos)
            ELSE <<>>)

\* The path, or the failure of the assertion in find_starting_unitig.
get_unitig_path_for_sequence(units, adj, seq_id) ==
    LET starts == starting_unitigs(units, seq_id)
    IN  IF Cardinality(starts) # 1 THEN [failure |-> StartAssert, path |-> <<>>]
        ELSE LET start == CHOOSE t \in starts : TRUE
             IN  [failure |-> "",
                  path |-> FollowPath(units, adj, seq_id, unitigs[start[1]], start[2], 0)]

RECURSIVE get_sequence_from_path(_, _, _)
get_sequence_from_path(units, index, path) ==
    IF path = <<>> THEN <<>>
    ELSE get_seq(units, index[path[1][1]], path[1][2])
         \o get_sequence_from_path(units, index, Tail(path))

reverse_path(path) ==
    [i \in 1 .. Len(path) |-> <<path[Len(path) + 1 - i][1], ~path[Len(path) + 1 - i][2]>>]

\* The pair of sets, or the failure of a path query.
get_fixed_unitig_starts_and_ends(units, adj) ==
    LET paths == [i \in DOMAIN sequences |->
                    get_unitig_path_for_sequence(units, adj, sequences[i].id)]
        used == {i \in DOMAIN sequences : Len(paths[i].path) # 0}
        first(i) == paths[i].path[1]
        last(i) == paths[i].path[Len(paths[i].path)]
    IN  [failure |-> IF \E i \in DOMAIN paths : paths[i].failure # ""
                        THEN StartAssert ELSE "",
         fixed_starts |-> {first(i)[1] : i \in {j \in used : first(j)[2]}}
                          \cup {last(i)[1] : i \in {j \in used : ~last(j)[2]}},
         fixed_ends |-> {first(i)[1] : i \in {j \in used : ~first(j)[2]}}
                        \cup {last(i)[1] : i \in {j \in used : last(j)[2]}}]

(***************************************************************************)
(* renumber_unitigs: a stable sort by length (decreasing), then sequence   *)
(* (bytewise), then depth (decreasing); numbers follow the new order.      *)
(***************************************************************************)
Byte(b) ==
    CASE b = "." -> 46 [] b = "A" -> 65 [] b = "C" -> 67 [] b = "G" -> 71
      [] b = "T" -> 84 [] OTHER -> 0

RECURSIVE SeqLess(_, _)
SeqLess(a, b) ==
    IF b = <<>> THEN FALSE
    ELSE IF a = <<>> THEN TRUE
    ELSE IF Byte(a[1]) # Byte(b[1]) THEN Byte(a[1]) < Byte(b[1])
    ELSE SeqLess(Tail(a), Tail(b))

\* A slip: the shorter unitig first.
UnitigLess_ShortFirst(a, b) ==
    IF Len(forward_seq[a]) # Len(forward_seq[b])
        THEN Len(forward_seq[a]) < Len(forward_seq[b])
    ELSE IF forward_seq[a] # forward_seq[b]
        THEN SeqLess(forward_seq[a], forward_seq[b])
    ELSE depth[a] > depth[b]

\* The comparator of sort_by says Less.
UnitigLess(a, b) ==
    IF Len(forward_seq[a]) # Len(forward_seq[b])
        THEN Len(forward_seq[a]) > Len(forward_seq[b])
    ELSE IF forward_seq[a] # forward_seq[b]
        THEN SeqLess(forward_seq[a], forward_seq[b])
    ELSE depth[a] > depth[b]

RECURSIVE StableSort_FirstOnly(_)
\* A slip: an element is compared with the first of the sorted ones only.
StableSort_FirstOnly(list) ==
    IF list = <<>> THEN <<>>
    ELSE LET sorted == StableSort_FirstOnly(Front(list))
             x == list[Len(list)]
         IN  IF sorted # <<>> /\ UnitigLess(x, sorted[1]) THEN <<x>> \o sorted
             ELSE Append(sorted, x)

\* A slip: the vector is left in its order and its first unitig entered twice.
StableSort_FirstTwice(list) ==
    IF list = <<>> THEN <<>> ELSE Append(list, list[1])

RECURSIVE StableSort(_)
StableSort(list) ==
    IF list = <<>> THEN <<>>
    ELSE LET sorted == StableSort(Front(list))
             x == list[Len(list)]
             before == {i \in DOMAIN sorted : UnitigLess(x, sorted[i])}
             at == IF before = {} THEN Len(sorted) + 1
                   ELSE CHOOSE i \in before : \A j \in before : i <= j
         IN  SubSeq(sorted, 1, at - 1) \o <<x>> \o SubSeq(sorted, at, Len(sorted))

(***************************************************************************)
(* GFA text.  A line is the tuple of its tab-separated parts, a tag is the *)
(* pair of its prefix and its value, a path string is the tuple of its     *)
(* comma-separated steps, and a number is written in decimal digits.       *)
(***************************************************************************)
Digits == <<"0", "1", "2", "3", "4", "5", "6", "7", "8", "9">>

RECURSIVE to_string(_)
to_string(n) ==
    IF n < 10 THEN <<Digits[n + 1]>>
    ELSE to_string(n \div 10) \o <<Digits[(n % 10) + 1]>>

RECURSIVE parse(_)
parse(s) ==
    LET digit == CHOOSE d \in 0 .. 9 : Digits[d + 1] = s[Len(s)]
    IN  IF Len(s) = 1 THEN digit ELSE 10 * parse(Front(s)) + digit

strand_sign(strand) == IF strand THEN "+" ELSE "-"

\* The value of the first tag of parts[from ..] with this prefix, or none.
TagValue(parts, from, prefix, none) ==
    LET tagged == {i \in from .. Len(parts) : parts[i][1] = prefix}
    IN  IF tagged = {} THEN none
        ELSE parts[CHOOSE i \in tagged : \A j \in tagged : i <= j][2]

IsHeaderLine(parts)  == parts[1] = "H"
IsSegmentLine(parts) == parts[1] = "S"
IsLinkLine(parts)    == parts[1] = "L"
IsPathLine(parts)    == parts[1] = "P"

(***************************************************************************)
(* Saving a graph as GFA lines (save_gfa).                                 *)
(***************************************************************************)
gfa_segment_line(u) ==
    <<"S", to_string(number[u]), forward_seq[u], <<"DP:f:", to_string(depth[u])>>>>

get_links_for_gfa ==
    LET links_of(a) ==
            [j \in DOMAIN forward_next[a] |->
                <<to_string(number[a]), "+",
                  to_string(number[forward_next[a][j].unitig]),
                  strand_sign(forward_next[a][j].strand)>>]
            \o
            [j \in DOMAIN reverse_next[a] |->
                <<to_string(number[a]), "-",
                  to_string(number[reverse_next[a][j].unitig]),
                  strand_sign(reverse_next[a][j].strand)>>]
        RECURSIVE Links(_)
        Links(i) == IF i > Len(unitigs) THEN <<>>
                    ELSE links_of(unitigs[i]) \o Links(i + 1)
    IN  Links(1)

\* The P line of a sequence whose path query gave unitig_path.
get_gfa_path_line(seq, unitig_path) ==
    LET path_str == [i \in DOMAIN unitig_path |->
                        <<to_string(unitig_path[i][1]), strand_sign(unitig_path[i][2])>>]
        cluster_tag == IF seq.cluster > 0
                          THEN << <<"CL:i:", to_string(seq.cluster)>> >> ELSE <<>>
    IN  <<"P", to_string(seq.id), path_str, "*", <<"LN:i:", to_string(seq.length)>>,
          <<"FN:Z:", seq.filename>>, <<"HD:Z:", seq.header>>>> \o cluster_tag

\* The lines save_gfa writes, or the failure of a path query.
save_gfa ==
    LET links == get_links_for_gfa
        paths == [i \in DOMAIN sequences |->
                    get_unitig_path_for_sequence(Units, Adj, sequences[i].id)]
    IN  IF \E i \in DOMAIN paths : paths[i].failure # ""
        THEN [failure |-> StartAssert, lines |-> <<>>]
        ELSE [failure |-> "",
              lines |-> << <<"H", <<"VN:Z:", "1.0">>, <<"KM:i:", to_string(k_size)>>>> >>
                        \o [i \in DOMAIN unitigs |-> gfa_segment_line(unitigs[i])]
                        \o [i \in DOMAIN links |-> <<"L">> \o links[i] \o <<"0M">>]
                        \o [i \in DOMAIN sequences |->
                                get_gfa_path_line(sequences[i], paths[i].path)]]

(***************************************************************************)
(* Loading a graph from GFA lines (from_gfa_lines): segments, then links   *)
(* in line order, then paths, whose positions are laid down from 0.  The   *)
(* i-th segment line makes the unitig object i.                            *)
(***************************************************************************)
HeaderError == "could not find a valid k-mer tag"
OverlapError == "non-zero overlap found on the GFA link line"
MissingTag == "missing required tag in GFA path line"

\* str::parse::<u32> succeeds on a non-empty string of digits.
IsNumber(s) ==
    /\ s # <<>>
    /\ \A i \in DOMAIN s : \E d \in DOMAIN Digits : Digits[d] = s[i]

HasTag(parts, from, prefix) == \E i \in from .. Len(parts) : parts[i][1] = prefix

\* The k-mer size of the first KM:i: tag that parses, or the fatal error.
read_gfa_header_line(parts) ==
    LET valid == {i \in 2 .. Len(parts) : parts[i][1] = "KM:i:" /\ IsNumber(parts[i][2])}
    IN  IF valid = {} THEN [failure |-> HeaderError, k_size |-> 0]
        ELSE [failure |-> "",
              k_size |-> parse(parts[CHOOSE i \in valid : \A j \in valid : i <= j][2])]

from_segment_line(parts) ==
    [number |-> parse(parts[2]), forward_seq |-> parts[3],
     depth |-> parse(TagValue(parts, 4, "DP:f:", <<"0">>))]

\* number -> unitig object, collected from the first i segments; of two
\* segments with one number the later stays.
RECURSIVE build_unitig_index(_, _)
build_unitig_index(segs, i) ==
    IF i = 0 THEN [n \in {} |-> n]
    ELSE (segs[i].number :> i) @@ build_unitig_index(segs, i - 1)

LinkError == "link refers to nonexistent unitig"
PathError == "unitig not found in unitig index"
PositionMismatch == "Position calculation mismatch"
CheckLinksPanic == "check_links: missing link"

RECURSIVE build_links_from_gfa_Prepend(_, _, _, _)
\* build_links_from_gfa putting each link at the front of its lists.
build_links_from_gfa_Prepend(adj, index, link_lines, i) ==
    IF i > Len(link_lines) THEN adj
    ELSE LET parts == link_lines[i]
             unitig_1 == index[parse(parts[2])]
             unitig_2 == index[parse(parts[4])]
             strand_1 == parts[3] = "+"
             strand_2 == parts[5] = "+"
             adj1 == SetNext(adj, unitig_1, strand_1,
                             <<UnitigStrand(unitig_2, strand_2)>>
                             \o Next_(adj, unitig_1, strand_1))
             adj2 == SetPrev(adj1, unitig_2, strand_2,
                             <<UnitigStrand(unitig_1, strand_1)>>
                             \o Prev_(adj1, unitig_2, strand_2))
         IN  build_links_from_gfa_Prepend(adj2, index, link_lines, i + 1)

RECURSIVE build_links_from_gfa(_, _, _, _)
build_links_from_gfa(adj, index, link_lines, i) ==
    IF i > Len(link_lines) THEN adj
    ELSE LET parts == link_lines[i]
             unitig_1 == index[parse(parts[2])]
             unitig_2 == index[parse(parts[4])]
             strand_1 == parts[3] = "+"
             strand_2 == parts[5] = "+"
             adj1 == SetNext(adj, unitig_1, strand_1,
                             Append(Next_(adj, unitig_1, strand_1),
                                    UnitigStrand(unitig_2, strand_2)))
             adj2 == SetPrev(adj1, unitig_2, strand_2,
                             Append(Prev_(adj1, unitig_2, strand_2),
                                    UnitigStrand(unitig_1, strand_1)))
         IN  build_links_from_gfa(adj2, index, link_lines, i + 1)

parse_unitig_path(path_str) ==
    [i \in DOMAIN path_str |-> <<parse(path_str[i][1]), path_str[i][2] = "+">>]

RECURSIVE add_positions_from_path(_, _, _, _, _, _, _)
add_positions_from_path(units, index, path, i, path_strand, seq_id, pos) ==
    IF i > Len(path) THEN units
    ELSE LET u == index[path[i][1]]
             added == Position(seq_id, path_strand, pos)
         IN  add_positions_from_path(
                IF path[i][2]
                    THEN [units EXCEPT !.forward_positions[u] = Append(@, added)]
                    ELSE [units EXCEPT !.reverse_positions[u] = Append(@, added)],
                index, path, i + 1, path_strand, seq_id,
                pos + Len(units.forward_seq[u]))

create_sequence_and_positions(units, index, seq_id, forward_path) ==
    add_positions_from_path(
        add_positions_from_path(units, index, forward_path, 1, FORWARD, seq_id, 0),
        index, reverse_path(forward_path), 1, REVERSE, seq_id, 0)

RECURSIVE build_paths_from_gfa(_, _, _, _)
build_paths_from_gfa(units, index, path_lines, i) ==
    IF i > Len(path_lines) THEN units
    ELSE build_paths_from_gfa(
            create_sequence_and_positions(units, index, parse(path_lines[i][2]),
                                          parse_unitig_path(path_lines[i][3])),
            index, path_lines, i + 1)

\* The Sequence that build_paths_from_gfa makes of a P line.
new_without_seq(parts) ==
    [id |-> parse(parts[2]),
     length |-> parse(TagValue(parts, 5, "LN:i:", <<"0">>)),
     filename |-> TagValue(parts, 5, "FN:Z:", ""),
     header |-> TagValue(parts, 5, "HD:Z:", ""),
     cluster |-> parse(TagValue(parts, 5, "CL:i:", <<"0">>))]

\* Where add_positions_from_path ends on a path.
RECURSIVE PathLength(_, _, _)
PathLength(segs, index, path) ==
    IF path = <<>> THEN 0
    ELSE Len(segs[index[path[1][1]]].forward_seq) + PathLength(segs, index, Tail(path))

\* The graph and sequences that from_gfa_lines builds, or the failure that
\* stops it (check_links, its last step, is made on the loaded state).
from_gfa_lines(gfa_lines) ==
    LET header_lines == SelectSeq(gfa_lines, IsHeaderLine)
        segment_lines == SelectSeq(gfa_lines, IsSegmentLine)
        link_lines == SelectSeq(gfa_lines, IsLinkLine)
        path_lines == SelectSeq(gfa_lines, IsPathLine)
        segs == [i \in DOMAIN segment_lines |-> from_segment_line(segment_lines[i])]
        ids == DOMAIN segs
        index == build_unitig_index(segs, Len(segs))
        none == [u \in ids |-> <<>>]
        paths == [i \in DOMAIN path_lines |-> parse_unitig_path(path_lines[i][3])]
        sequences_ == [i \in DOMAIN path_lines |-> new_without_seq(path_lines[i])]
        headers == [i \in DOMAIN header_lines |-> read_gfa_header_line(header_lines[i])]
        link_failure(parts) ==
            IF Len(parts) < 6 \/ parts[6] # "0M" THEN OverlapError
            ELSE IF \/ parse(parts[2]) \notin DOMAIN index
                    \/ parse(parts[4]) \notin DOMAIN index
                THEN LinkError
            ELSE ""
        path_failure(i) ==
            IF \/ ~HasTag(path_lines[i], 5, "LN:i:")
               \/ ~HasTag(path_lines[i], 5, "FN:Z:")
               \/ ~HasTag(path_lines[i], 5, "HD:Z:")
                THEN MissingTag
            ELSE IF \E j \in DOMAIN paths[i] : paths[i][j][1] \notin DOMAIN index
                THEN PathError
            ELSE IF PathLength(segs, index, paths[i]) # sequences_[i].length
                THEN PositionMismatch
            ELSE ""
        failed ==
            IF \E i \in DOMAIN headers : headers[i].failure # ""
                THEN HeaderError
            ELSE IF \E i \in DOMAIN link_lines : link_failure(link_lines[i]) # ""
                THEN link_failure(link_lines[CHOOSE i \in DOMAIN link_lines :
                        /\ link_failure(link_lines[i]) # ""
                        /\ \A j \in 1 .. i - 1 : link_failure(link_lines[j]) = ""])
            ELSE IF \E i \in DOMAIN path_lines : path_failure(i) # ""
                THEN path_failure(CHOOSE i \in DOMAIN path_lines :
                        /\ path_failure(i) # ""
                        /\ \A j \in 1 .. i - 1 : path_failure(j) = "")
            ELSE ""
        no_adj == [forward_next |-> none, forward_prev |-> none,
                   reverse_next |-> none, reverse_prev |-> none]
        no_units == [failure |-> "", shifted |-> 0,
                     forward_seq |-> [u \in ids |-> segs[u].forward_seq],
                     reverse_seq |-> [u \in ids |->
                                        reverse_complement(segs[u].forward_seq)],
                     forward_positions |-> none, reverse_positions |-> none]
    IN  [failure |-> failed,
         k_size |-> IF failed = HeaderError \/ headers = <<>> THEN 0
                    ELSE headers[Len(headers)].k_size,
         unitigs |-> [i \in ids |-> i],
         number |-> [u \in ids |-> segs[u].number],
         depth |-> [u \in ids |-> segs[u].depth],
         unitig_index |-> index,
         adj |-> IF failed # "" THEN no_adj
                 ELSE build_links_from_gfa(no_adj, index, link_lines, 1),
         units |-> IF failed # "" THEN no_units
                   ELSE build_paths_from_gfa(no_units, index, path_lines, 1),
         sequences |-> sequences_]

\* The state holding a loaded graph.
Loaded(graph) ==
    /\ unitigs = graph.unitigs
    /\ unitig_index = graph.unitig_index
    /\ k_size = graph.k_size
    /\ number = graph.number
    /\ depth = graph.depth
    /\ forward_seq = graph.units.forward_seq
    /\ reverse_seq = graph.units.reverse_seq
    /\ forward_positions = graph.units.forward_positions
    /\ reverse_positions = graph.units.reverse_positions
    /\ forward_next = graph.adj.forward_next
    /\ forward_prev = graph.adj.forward_prev
    /\ reverse_next = graph.adj.reverse_next
    /\ reverse_prev = graph.adj.reverse_prev
    /\ sequences = graph.sequences

(***************************************************************************)
(* simplify_structure, one step per shift attempt.                         *)
(***************************************************************************)
SetUnits(units) ==
    /\ forward_seq' = units.forward_seq
    /\ reverse_seq' = units.reverse_seq
    /\ forward_positions' = units.forward_positions
    /\ reverse_positions' = units.reverse_positions
    /\ failure' = units.failure

half_k == k_size \div 2

\* The bytes each sequence's path spells now ("!" where the query fails).
Spelled(units, index) ==
    [i \in DOMAIN sequences |->
        LET p == get_unitig_path_for_sequence(units, Adj, sequences[i].id)
        IN  IF p.failure # "" THEN <<"!">>
            ELSE get_sequence_from_path(units, index, p.path)]

(***************************************************************************)
(* The graphs handed to simplify_structure: every graph read from GFA      *)
(* lines with up to MaxUnitigs segments over the bases of Bases, one or    *)
(* two paths of 2 to MaxPathLen steps (MaxSteps in all), and the           *)
(* links those paths walk, with their mirrors.  Every segment lies on a    *)
(* path, as it does in a graph built from sequences, and some unitig has   *)
(* two or more exclusive inputs or outputs, so that a shift is attempted.  *)
(***************************************************************************)
MaxUnitigs == 3
MaxSeqLen  == 2
MaxPathLen == 3
MaxSteps   == 4
Bases      == {"A", "T"}
KSizes     == {1, 3}

SeqPool == UNION {[1 .. l -> Bases] : l \in 1 .. MaxSeqLen}

Signed(n) == {x \in -n .. n : x # 0}

Walks(n) == UNION {[1 .. l -> Signed(n)] : l \in 2 .. MaxPathLen}

RECURSIVE WalkKey(_)
WalkKey(w) == IF w = <<>> THEN 0 ELSE (w[Len(w)] + 10) + 20 * WalkKey(Front(w))

\* One path, or two.
WalkLists(n) ==
    {<<a>> : a \in Walks(n)} \cup {<<a, b>> : a \in Walks(n), b \in Walks(n)}

Steps(walks) == IF Len(walks) = 1 THEN Len(walks[1]) ELSE Len(walks[1]) + Len(walks[2])

WalkLinks(w) ==
    UNION {{<<w[i], w[i + 1]>>, <<-w[i + 1], -w[i]>>} : i \in 1 .. Len(w) - 1}

PathLinks(walks) == UNION {WalkLinks(walks[i]) : i \in DOMAIN walks}

Covered(n, walks) ==
    \A u \in 1 .. n : \E i \in DOMAIN walks : \E j \in DOMAIN walks[i] :
        Abs(walks[i][j]) = u

HasRepeat(n, links) ==
    \E u \in 1 .. n :
        \/ LET ins == {l \in links : l[2] = u}
           IN  /\ Cardinality(ins) >= 2
               /\ \A l \in ins : {m \in links : m[1] = l[1]} = {l}
        \/ LET outs == {l \in links : l[1] = u}
           IN  /\ Cardinality(outs) >= 2
               /\ \A l \in outs : {m \in links : m[2] = l[2]} = {l}

LinkKey(l) == (l[1] + 10) * 20 + (l[2] + 10)

RECURSIVE LinkLines(_)
\* The L lines of the links, in one order.
LinkLines(links) ==
    IF links = {} THEN <<>>
    ELSE LET l == CHOOSE x \in links : \A y \in links : LinkKey(x) <= LinkKey(y)
         IN  << <<"L", to_string(Abs(l[1])), strand_sign(StrandOf(l[1])),
                  to_string(Abs(l[2])), strand_sign(StrandOf(l[2])), "0M">> >>
             \o LinkLines(links \ {l})

Accepted(n, walks) ==
    IF Len(walks) = 2 /\ WalkKey(walks[1]) >= WalkKey(walks[2]) THEN FALSE
    ELSE IF Steps(walks) > MaxSteps THEN FALSE
    ELSE IF ~Covered(n, walks) THEN FALSE
    ELSE HasRepeat(n, PathLinks(walks))

RECURSIVE WalkLength(_, _)
WalkLength(segs, w) ==
    IF w = <<>> THEN 0 ELSE Len(segs[Abs(w[1])]) + WalkLength(segs, Tail(w))

\* The P line of the i-th sequence, which walks w.
PathLine(segs, i, w) ==
    <<"P", to_string(i),
      [j \in DOMAIN w |-> <<to_string(Abs(w[j])), strand_sign(StrandOf(w[j]))>>],
      "*", <<"LN:i:", to_string(WalkLength(segs, w))>>,
      <<"FN:Z:", "assembly.fasta">>, <<"HD:Z:", "contig">>>>

\* The file of a graph with these segments walked by these paths.
GfaLines(k, segs, walks) ==
    << <<"H", <<"VN:Z:", "1.0">>, <<"KM:i:", to_string(k)>>>> >>
    \o [i \in DOMAIN segs |-> <<"S", to_string(i), segs[i], <<"DP:f:", <<"1">>>>>>]
    \o LinkLines(PathLinks(walks))
    \o [i \in DOMAIN walks |-> PathLine(segs, i, walks[i])]

InitSimplify ==
    \E n \in 2 .. MaxUnitigs :
      \E walks \in WalkLists(n) :
        /\ Accepted(n, walks)
        /\ \E k \in KSizes, segs \in [1 .. n -> SeqPool] :
              \E graph \in {from_gfa_lines(GfaLines(k, segs, walks))} :
                  /\ Loaded(graph)
                  /\ kmer_graph = [k_size |-> k, kmers |-> <<>>]
                  /\ assemblies_dir = "dir"
                  /\ autocycler_dir = "dir"
                  /\ threads = 1
                  /\ all_seqs = <<>>
                  /\ worker = <<>>
        /\ gfa_files = <<>>
        /\ assemblies = <<>>
        /\ pc = "built"
        /\ idx = 0
        /\ total_shifted_seq = 0
        /\ fixed_starts = {}
        /\ fixed_ends = {}
        /\ failure = ""
        /\ calls = <<>>
        /\ spelled = <<>>

\* expand_repeats up to its loop: the fixed starts and ends of this pass.
ExpandRepeats ==
    /\ pc \in {"built", "expand_repeats"}
    /\ \E fixed \in {get_fixed_unitig_starts_and_ends(Units, Adj)} :
           /\ fixed_starts' = fixed.fixed_starts
           /\ fixed_ends' = fixed.fixed_ends
           /\ failure' = fixed.failure
           /\ pc' = IF fixed.failure # "" THEN "failed" ELSE "shift_1"
    /\ idx' = 1
    /\ total_shifted_seq' = 0
    /\ spelled' = IF pc = "built" THEN Spelled(Units, unitig_index) ELSE spelled
    /\ UNCHANGED <<idVars, forward_seq, reverse_seq, forward_positions,
                   reverse_positions, adjVars, calls, gfa_files, buildVars>>

ShiftCall(op, destination, sources, units) ==
    [op |-> op, destination |-> destination, sources |-> sources,
     before |-> Units, shifted |-> units.shifted]

\* The in-shift of the unitig at idx.
Shift1 ==
    /\ pc = "shift_1"
    /\ LET unitig == unitigs[idx]
           inputs == get_exclusive_inputs(Adj, unitig)
           shift_okay ==
               \A i \in DOMAIN inputs :
                  /\ ~(inputs[i].strand /\ number[inputs[i].unitig] \in fixed_ends)
                  /\ ~(~inputs[i].strand /\ number[inputs[i].unitig] \in fixed_starts)
       IN  IF Len(inputs) >= 2 /\ number[unitig] \notin fixed_starts /\ shift_okay
           THEN \E units \in {shift_sequence_1(Units, inputs, unitig, half_k)} :
                    /\ SetUnits(units)
                    /\ total_shifted_seq' = total_shifted_seq + units.shifted
                    /\ calls' = <<ShiftCall("shift_sequence_1", unitig, inputs, units)>>
                    /\ pc' = IF units.failure # "" THEN "failed" ELSE "shift_2"
           ELSE /\ pc' = "shift_2"
                /\ UNCHANGED <<seqVars, failure, total_shifted_seq, calls>>
    /\ UNCHANGED <<idVars, adjVars, idx, fixed_starts, fixed_ends, spelled, gfa_files, buildVars>>

\* The out-shift of the unitig at idx, and the move to the next unitig.
Shift2 ==
    /\ pc = "shift_2"
    /\ LET unitig == unitigs[idx]
           outputs == get_exclusive_outputs(Adj, unitig)
           shift_okay ==
               \A i \in DOMAIN outputs :
                  /\ ~(outputs[i].strand /\ number[outputs[i].unitig] \in fixed_starts)
                  /\ ~(~outputs[i].strand /\ number[outputs[i].unitig] \in fixed_ends)
           after == IF idx < Len(unitigs) THEN "shift_1" ELSE "pass_end"
       IN  IF Len(outputs) >= 2 /\ number[unitig] \notin fixed_ends /\ shift_okay
           THEN \E units \in {shift_sequence_2(Units, unitig, outputs, half_k)} :
                    /\ SetUnits(units)
                    /\ total_shifted_seq' = total_shifted_seq + units.shifted
                    /\ calls' = <<ShiftCall("shift_sequence_2", unitig, outputs, units)>>
                    /\ pc' = IF units.failure # "" THEN "failed" ELSE after
                    /\ idx' = IF units.failure = "" /\ idx < Len(unitigs)
                                 THEN idx + 1 ELSE idx
           ELSE /\ pc' = after
                /\ idx' = IF idx < Len(unitigs) THEN idx + 1 ELSE idx
                /\ UNCHANGED <<seqVars, failure, total_shifted_seq, calls>>
    /\ UNCHANGED <<idVars, adjVars, fixed_starts, fixed_ends, spelled, gfa_files, buildVars>>

\* The end of a pass: loop again unless nothing was shifted.
PassEnd ==
    /\ pc = "pass_end"
    /\ pc' = IF total_shifted_seq = 0 THEN "renumber" ELSE "expand_repeats"
    /\ UNCHANGED <<idVars, seqVars, adjVars, passVars, failure, calls, spelled, gfa_files, buildVars>>

renumber_unitigs ==
    /\ pc = "renumber"
    /\ LET sorted == StableSort(unitigs)
       IN  /\ unitigs' = sorted
           /\ number' = [u \in DOMAIN number |->
                            CHOOSE n \in DOMAIN sorted : sorted[n] = u]
           /\ unitig_index' = [n \in DOMAIN sorted |-> sorted[n]]
    /\ pc' = "done"
    /\ UNCHANGED <<k_size, depth, sequences, seqVars, adjVars, passVars, failure,
                   calls, spelled, gfa_files, buildVars>>

\* What a graph is to a reader of its file: the unitigs in vector order with
\* their numbers and sequences, their next lists as numbers and strands, the
\* sequences, and the path of each.
NumberedStrands(list) ==
    [j \in DOMAIN list |-> <<number[list[j].unitig], list[j].strand>>]

GraphView ==
    [numbers |-> [i \in DOMAIN unitigs |-> number[unitigs[i]]],
     seqs |-> [i \in DOMAIN unitigs |-> forward_seq[unitigs[i]]],
     forward_next |-> [i \in DOMAIN unitigs |->
                          NumberedStrands(forward_next[unitigs[i]])],
     reverse_next |-> [i \in DOMAIN unitigs |->
                          NumberedStrands(reverse_next[unitigs[i]])],
     sequences |-> sequences,
     paths |-> [i \in DOMAIN sequences |->
                  get_unitig_path_for_sequence(Units, Adj, sequences[i].id)]]

\* The graph is saved as it was built or, as compress does, simplified; the
\* saved file is read back (from_gfa_file) and the graph read is saved again.
SaveGfa ==
    /\ pc \in {"built", "done", "reloaded"}
    /\ \E out \in {save_gfa} :
           /\ failure' = out.failure
           /\ gfa_files' = IF out.failure # "" THEN gfa_files
                           ELSE Append(gfa_files,
                                       [lines |-> out.lines, graph |-> GraphView])
           /\ pc' = IF out.failure # "" THEN "gfa_failed"
                    ELSE IF pc = "reloaded" THEN "resaved" ELSE "saved"
    /\ UNCHANGED <<idVars, seqVars, adjVars, passVars, calls, spelled, buildVars>>

FromGfaFile ==
    /\ pc = "saved"
    /\ \E graph \in {from_gfa_lines(gfa_files[Len(gfa_files)].lines)} :
           /\ unitigs' = graph.unitigs
           /\ unitig_index' = graph.unitig_index
           /\ k_size' = graph.k_size
           /\ number' = graph.number
           /\ depth' = graph.depth
           /\ forward_seq' = graph.units.forward_seq
           /\ reverse_seq' = graph.units.reverse_seq
           /\ forward_positions' = graph.units.forward_positions
           /\ reverse_positions' = graph.units.reverse_positions
           /\ forward_next' = graph.adj.forward_next
           /\ forward_prev' = graph.adj.forward_prev
           /\ reverse_next' = graph.adj.reverse_next
           /\ reverse_prev' = graph.adj.reverse_prev
           /\ sequences' = graph.sequences
           /\ failure' = IF graph.failure # "" THEN graph.failure
                         ELSE IF check_links(Adj)' THEN "" ELSE CheckLinksPanic
    /\ pc' = IF failure' = "" THEN "reloaded" ELSE "gfa_failed"
    /\ UNCHANGED <<passVars, calls, spelled, gfa_files, buildVars>>

NextSimplify ==
    \/ ExpandRepeats \/ Shift1 \/ Shift2 \/ PassEnd \/ renumber_unitigs
    \/ SaveGfa \/ FromGfaFile

SpecSimplify == InitSimplify /\ [][NextSimplify]_vars

(***************************************************************************)
(* from_gfa_file on files that save_gfa need not have written: with or     *)
(* without a header line, with a missing or unreadable k-mer tag, with     *)
(* links to missing segments, with other overlaps, without mirrors, and    *)
(* with path lines lacking tags or naming missing segments.                *)
(***************************************************************************)
MaxFileSegments == 2
MaxFileLinks == 2

FileHeaders ==
    {<<>>,
     << <<"H", <<"VN:Z:", "1.0">>, <<"KM:i:", <<"3">>>>>> >>,
     << <<"H", <<"VN:Z:", "1.0">>>> >>,
     << <<"H", <<"VN:Z:", "1.0">>, <<"KM:i:", <<"x">>>>>> >>}

FileSegments(n) == [i \in 1 .. n |-> <<"S", to_string(i), <<"A">>, <<"DP:f:", <<"1">>>>>>]

\* Link lines between the segments 1 .. MaxFileSegments, present or not.
FileLinkLines ==
    {<<"L", to_string(a), sa, to_string(b), sb, "0M">> :
        a \in 1 .. MaxFileSegments, sa \in {"+", "-"},
        b \in 1 .. MaxFileSegments, sb \in {"+", "-"}}
    \cup {<<"L", <<"1">>, "+", <<"1">>, "-", "1M">>, <<"L", <<"1">>, "+", <<"1">>, "-">>}

FileLinks == UNION {[1 .. n -> FileLinkLines] : n \in 0 .. MaxFileLinks}

FileTags ==
    {<< <<"LN:i:", <<"1">>>>, <<"FN:Z:", "assembly.fasta">>, <<"HD:Z:", "contig">> >>,
     << <<"FN:Z:", "assembly.fasta">>, <<"HD:Z:", "contig">> >>,
     << <<"LN:i:", <<"1">>>>, <<"HD:Z:", "contig">> >>,
     << <<"LN:i:", <<"1">>>>, <<"FN:Z:", "assembly.fasta">> >>}

FilePaths ==
    {<<>>} \cup
    {<< <<"P", <<"1">>, << <<to_string(a), "+">> >>, "*">> \o tags >> :
        a \in 1 .. MaxFileSegments, tags \in FileTags}

Files ==
    {header \o FileSegments(n) \o links \o paths :
        header \in FileHeaders, n \in 1 .. MaxFileSegments, links \in FileLinks,
        paths \in FilePaths}

InitFiles ==
    /\ unitigs = <<>>
    /\ unitig_index = <<>>
    /\ k_size = 0
    /\ number = <<>>
    /\ forward_seq = <<>>
    /\ reverse_seq = <<>>
    /\ depth = <<>>
    /\ forward_next = <<>>
    /\ forward_prev = <<>>
    /\ reverse_next = <<>>
    /\ reverse_prev = <<>>
    /\ forward_positions = <<>>
    /\ reverse_positions = <<>>
    /\ sequences = <<>>
    /\ pc = "saved"
    /\ idx = 0
    /\ total_shifted_seq = 0
    /\ fixed_starts = {}
    /\ fixed_ends = {}
    /\ failure = ""
    /\ calls = <<>>
    /\ spelled = <<>>
    /\ \E lines \in Files : gfa_files = <<[lines |-> lines, graph |-> <<>>]>>
    /\ assemblies = <<>>
    /\ kmer_graph = [k_size |-> 0, kmers |-> <<>>]
    /\ assemblies_dir = "dir"
    /\ autocycler_dir = "dir"
    /\ threads = 1
    /\ all_seqs = <<>>
    /\ worker = <<>>

NextFiles == FromGfaFile

SpecFiles == InitFiles /\ [][NextFiles]_vars

FileLines == gfa_files[1].lines

SegmentNumbers == {parse(line[2]) : line \in {l \in Range(FileLines) : IsSegmentLine(l)}}

NamesSegment(s) == IsNumber(s) /\ parse(s) \in SegmentNumbers

\* The link line of the mirror link.
MirrorLine(line) ==
    <<"L", line[4], IF line[5] = "+" THEN "-" ELSE "+",
      line[2], IF line[3] = "+" THEN "-" ELSE "+", "0M">>

ValidFile ==
    /\ \E line \in Range(FileLines) :
          /\ IsHeaderLine(line)
          /\ \E i \in 2 .. Len(line) : line[i][1] = "KM:i:" /\ IsNumber(line[i][2])
    /\ \A line \in Range(FileLines) :
          IsLinkLine(line) =>
              /\ Len(line) >= 6
              /\ line[6] = "0M"
              /\ NamesSegment(line[2])
              /\ NamesSegment(line[4])
              /\ MirrorLine(line) \in Range(FileLines)
    /\ \A line \in Range(FileLines) :
          IsPathLine(line) =>
              /\ \A tag \in {"LN:i:", "FN:Z:", "HD:Z:"} :
                    \E i \in 5 .. Len(line) : line[i][1] = tag
              /\ \A j \in DOMAIN line[3] : NamesSegment(line[3][j][1])

\* C18: from_gfa_lines returns a graph only for a file with a valid k-mer
\* tag, whose link lines all have overlap 0M, name existing segments and have
\* their mirror, and whose path lines all carry LN, FN and HD tags and name
\* existing segments; on every other file it ends in a fatal error.
C18_OnlyValidFilesLoad ==
    pc = "reloaded" => ValidFile

\* C18 for the files that have a header line.
C18_WithHeaderLine ==
    (pc = "reloaded" /\ \E line \in Range(FileLines) : IsHeaderLine(line)) => ValidFile

(***************************************************************************)
(* Building a graph from assemblies: load_sequences, KmerGraph's           *)
(* add_sequences, UnitigGraph::from_kmer_graph and the reconstruction of   *)
(* the contigs from the graph, as compress and test_high_level chain them. *)
(*                                                                         *)
(* Loading the input contigs (load_sequences): every contig of at least k  *)
(* bytes becomes a Sequence padded with half_k dots on both sides, and     *)
(* sequence_end_repair then overwrites the dots where it finds a match.    *)
(***************************************************************************)
Dots(n) == [i \in 1 .. n |-> "."]

new_with_seq(id, seq, filename, contig_header, length_, hk) ==
    LET padded == Dots(hk) \o seq \o Dots(hk)
    IN  [id |-> id, length |-> length_, filename |-> filename,
         header |-> contig_header, cluster |-> 0,
         forward_seq |-> padded, reverse_seq |-> reverse_complement(padded)]

\* A slip: the regex matches wherever its last byte does.
MatchesAt_LastByteOnly(pattern, s, i) ==
    /\ i + Len(pattern) - 1 <= Len(s)
    /\ pattern # <<>> =>
          (pattern[Len(pattern)] = "." \/ pattern[Len(pattern)] = s[i + Len(pattern) - 1])

\* Whether the regex of pattern, in which a dot stands for any byte, matches
\* s at position i.
MatchesAt(pattern, s, i) ==
    /\ i + Len(pattern) - 1 <= Len(s)
    /\ \A j \in DOMAIN pattern : pattern[j] = "." \/ pattern[j] = s[i + j - 1]

\* Regex::find_iter: the leftmost matches, none overlapping another, from
\* position i on (an empty pattern matches before every byte and at the end).
RECURSIVE find_iter(_, _, _)
find_iter(pattern, s, i) ==
    IF i > Len(s) + 1 THEN <<>>
    ELSE IF MatchesAt(pattern, s, i)
        THEN <<SubSeq(s, i, i + Len(pattern) - 1)>>
             \o find_iter(pattern, s, IF pattern = <<>> THEN i + 1 ELSE i + Len(pattern))
    ELSE find_iter(pattern, s, i + 1)

DotCount(m) == Cardinality({i \in DOMAIN m : m[i] = "."})

NoMatch == "There should be at least one match"

\* match_counts: for every match, how often it is in the list and how many
\* dots it has.
match_counts(matches) ==
    [m \in Range(matches) |-> <<Count(matches, m), DotCount(m)>>]

\* A slip: the rarer match is the better one.
compare_matches_RareFirst(counts, a, b) ==
    IF counts[a][2] # counts[b][2]
        THEN IF counts[a][2] < counts[b][2] THEN "Less" ELSE "Greater"
    ELSE IF counts[a][1] # counts[b][1]
        THEN IF counts[a][1] < counts[b][1] THEN "Less" ELSE "Greater"
    ELSE IF a = b THEN "Equal"
    ELSE IF SeqLess(a, b) THEN "Less" ELSE "Greater"

\* The closure given to min_by: the dot counts, then the frequencies in
\* reverse, then the bytes.
compare_matches(counts, a, b) ==
    IF counts[a][2] # counts[b][2]
        THEN IF counts[a][2] < counts[b][2] THEN "Less" ELSE "Greater"
    ELSE IF counts[a][1] # counts[b][1]
        THEN IF counts[a][1] > counts[b][1] THEN "Less" ELSE "Greater"
    ELSE IF a = b THEN "Equal"
    ELSE IF SeqLess(a, b) THEN "Less" ELSE "Greater"

\* Iterator::min_by over matches[i ..] with the least so far: of elements
\* that compare equal the earlier stays.
RECURSIVE min_by(_, _, _, _)
min_by(matches, counts, i, least) ==
    IF i > Len(matches) THEN least
    ELSE min_by(matches, counts, i + 1,
                IF compare_matches(counts, least, matches[i]) = "Greater"
                    THEN matches[i] ELSE least)

\* find_best_match; <<NoMatch>> stands for the panic on an empty list.
find_best_match(matches) ==
    IF matches = <<>> THEN <<NoMatch>>
    ELSE min_by(matches, match_counts(matches), 2, matches[1])

sequence_end_repair(seqs, k) ==
    LET overlap_size == k - 1
        RECURSIVE all_matches(_, _)
        all_matches(pattern, i) ==
            IF i > Len(seqs) THEN <<>>
            ELSE find_iter(pattern, seqs[i].forward_seq, 1)
                 \o find_iter(pattern, seqs[i].reverse_seq, 1)
                 \o all_matches(pattern, i + 1)
        repaired(seq) ==
            LET f == seq.forward_seq
                start == SubSeq(f, 1, overlap_size)
                end == SubSeq(f, Len(f) - overlap_size + 1, Len(f))
                forward == find_best_match(all_matches(start, 1))
                           \o SubSeq(f, overlap_size + 1, Len(f) - overlap_size)
                           \o find_best_match(all_matches(end, 1))
            IN  [seq EXCEPT !.forward_seq = forward,
                            !.reverse_seq = reverse_complement(forward)]
    IN  [i \in DOMAIN seqs |-> repaired(seqs[i])]

\* The contigs that load_sequences keeps: those of k bytes or more.
Kept(contigs, k) == SelectSeq(contigs, LAMBDA seq : Len(seq) >= k)

load_sequences(contigs, k) ==
    LET kept == Kept(contigs, k)
    IN  sequence_end_repair(
            [i \in DOMAIN kept |->
                new_with_seq(i, kept[i], "assembly.fasta", "contig", Len(kept[i]),
                             k \div 2)], k)

(***************************************************************************)
(* The k-mer graph (KmerGraph): the k-mers of all sequences, each with the *)
(* positions at which it was added.                                        *)
(***************************************************************************)
ALPHABET == <<"A", "C", "G", "T">>

add_position(kmers, key, position) ==
    IF key \in DOMAIN kmers THEN [kmers EXCEPT ![key] = Append(@, position)]
    ELSE (key :> <<position>>) @@ kmers

RECURSIVE add_sequence(_, _, _, _)
add_sequence(kmers, seq, k, forward_start) ==
    IF forward_start >= seq.length - k + 1 THEN kmers
    ELSE LET reverse_start == seq.length - forward_start - k
             forward_k == SubSeq(seq.forward_seq, forward_start + 1, forward_start + k)
             reverse_k == SubSeq(seq.reverse_seq, reverse_start + 1, reverse_start + k)
             added == add_position(kmers, forward_k,
                         Position(seq.id, TRUE, forward_start + k \div 2))
         IN  add_sequence(
                add_position(added, reverse_k,
                             Position(seq.id, FALSE, reverse_start + k \div 2)),
                seq, k, forward_start + 1)

RECURSIVE add_sequences(_, _, _, _)
add_sequences(kmers, seqs, k, i) ==
    IF i > Len(seqs) THEN kmers
    ELSE add_sequences(add_sequence(kmers, seqs[i], k, 0), seqs, k, i + 1)

first_position(kmers, kmer, hk) ==
    \E i \in DOMAIN kmers[kmer] : kmers[kmer][i].pos = hk

\* A slip: the last byte is dropped instead of the first.
next_kmers_DropsLast(kmers, kmer) ==
    SelectSeq([b \in DOMAIN ALPHABET |-> Front(kmer) \o <<ALPHABET[b]>>],
              LAMBDA key : key \in DOMAIN kmers)

next_kmers(kmers, kmer) ==
    SelectSeq([b \in DOMAIN ALPHABET |-> Tail(kmer) \o <<ALPHABET[b]>>],
              LAMBDA key : key \in DOMAIN kmers)

prev_kmers(kmers, kmer) ==
    SelectSeq([b \in DOMAIN ALPHABET |-> <<ALPHABET[b]>> \o Front(kmer)],
              LAMBDA key : key \in DOMAIN kmers)

\* iterate_kmers: the keys in byte order.
RECURSIVE iterate_kmers(_)
iterate_kmers(keys) ==
    IF keys = {} THEN <<>>
    ELSE LET first == CHOOSE a \in keys : \A b \in keys : a = b \/ SeqLess(a, b)
         IN  <<first>> \o iterate_kmers(keys \ {first})

ReversePanic == "KmerGraph::reverse: unwrap on a k-mer that is not in the graph"

(***************************************************************************)
(* Building the unitig graph (from_kmer_graph).  A unitig under            *)
(* construction is the chain of its k-mers on each strand.                 *)
(***************************************************************************)
from_kmers(forward_kmer, reverse_kmer) ==
    [forward_kmers |-> <<forward_kmer>>, reverse_kmers |-> <<reverse_kmer>>]

add_kmer_to_end(unitig, forward_kmer, reverse_kmer) ==
    [forward_kmers |-> Append(unitig.forward_kmers, forward_kmer),
     reverse_kmers |-> <<reverse_kmer>> \o unitig.reverse_kmers]

add_kmer_to_start(unitig, forward_kmer, reverse_kmer) ==
    [forward_kmers |-> <<forward_kmer>> \o unitig.forward_kmers,
     reverse_kmers |-> Append(unitig.reverse_kmers, reverse_kmer)]

\* The loop that extends a unitig forward from for_k: the chain and the seen
\* set when it breaks, or the failure of reverse.
RECURSIVE ExtendForward(_, _, _, _, _, _)
ExtendForward(kmers, hk, seen, unitig, for_k, rev_k) ==
    LET stop == [failure |-> "", seen |-> seen, unitig |-> unitig]
        next == next_kmers(kmers, for_k)
    IN  IF first_position(kmers, rev_k, hk) THEN stop
        ELSE IF Len(next) # 1 THEN stop
        ELSE IF next[1] \in seen THEN stop
        ELSE IF Len(prev_kmers(kmers, next[1])) # 1 THEN stop
        ELSE IF reverse_complement(next[1]) \notin DOMAIN kmers
            THEN [stop EXCEPT !.failure = ReversePanic]
        ELSE IF first_position(kmers, next[1], hk) THEN stop
        ELSE ExtendForward(kmers, hk, seen \cup {next[1], reverse_complement(next[1])},
                           add_kmer_to_end(unitig, next[1], reverse_complement(next[1])),
                           next[1], reverse_complement(next[1]))

RECURSIVE ExtendBackward(_, _, _, _, _)
ExtendBackward(kmers, hk, seen, unitig, for_k) ==
    LET stop == [failure |-> "", seen |-> seen, unitig |-> unitig]
        prev == prev_kmers(kmers, for_k)
    IN  IF first_position(kmers, for_k, hk) THEN stop
        ELSE IF Len(prev) # 1 THEN stop
        ELSE IF prev[1] \in seen THEN stop
        ELSE IF Len(next_kmers(kmers, prev[1])) # 1 THEN stop
        ELSE IF reverse_complement(prev[1]) \notin DOMAIN kmers
            THEN [stop EXCEPT !.failure = ReversePanic]
        ELSE IF first_position(kmers, reverse_complement(prev[1]), hk) THEN stop
        ELSE ExtendBackward(kmers, hk, seen \cup {prev[1], reverse_complement(prev[1])},
                            add_kmer_to_start(unitig, prev[1], reverse_complement(prev[1])),
                            prev[1])

\* The unitigs made of the k-mers from the i-th on, in iteration order.
RECURSIVE build_unitigs_from_kmer_graph(_, _, _, _, _, _)
build_unitigs_from_kmer_graph(kmers, hk, sorted, i, seen, built) ==
    IF i > Len(sorted) THEN [failure |-> "", unitigs |-> built]
    ELSE IF sorted[i] \in seen
        THEN build_unitigs_from_kmer_graph(kmers, hk, sorted, i + 1, seen, built)
    ELSE IF reverse_complement(sorted[i]) \notin DOMAIN kmers
        THEN [failure |-> ReversePanic, unitigs |-> built]
    ELSE LET forward_kmer == sorted[i]
             reverse_kmer == reverse_complement(forward_kmer)
             forward == ExtendForward(kmers, hk, seen \cup {forward_kmer, reverse_kmer},
                                      from_kmers(forward_kmer, reverse_kmer),
                                      forward_kmer, reverse_kmer)
             backward == ExtendBackward(kmers, hk, forward.seen, forward.unitig,
                                        forward_kmer)
         IN  IF forward.failure # "" THEN [failure |-> forward.failure, unitigs |-> built]
             ELSE IF backward.failure # ""
                 THEN [failure |-> backward.failure, unitigs |-> built]
             ELSE build_unitigs_from_kmer_graph(kmers, hk, sorted, i + 1, backward.seen,
                                                Append(built, backward.unitig))

\* The bytes of a chain of k-mers, each overlapping the one before by k - 1.
RECURSIVE ChainSeq(_)
ChainSeq(chain) ==
    IF Len(chain) = 1 THEN chain[1]
    ELSE ChainSeq(Front(chain)) \o <<chain[Len(chain)][Len(chain[Len(chain)])]>>

RECURSIVE TotalDepth(_, _)
TotalDepth(kmers, chain) ==
    IF chain = <<>> THEN 0 ELSE Len(kmers[chain[1]]) + TotalDepth(kmers, Tail(chain))

\* Unitig::simplify_seqs: the sequences, the positions of the first k-mer of
\* each strand, and the mean depth of the k-mers.
simplify_seqs(kmers, unitig) ==
    [forward_seq |-> ChainSeq(unitig.forward_kmers),
     reverse_seq |-> ChainSeq(unitig.reverse_kmers),
     forward_positions |-> kmers[unitig.forward_kmers[1]],
     reverse_positions |-> kmers[unitig.reverse_kmers[1]],
     depth |-> TotalDepth(kmers, unitig.forward_kmers) \div Len(unitig.forward_kmers)]

PushNext(adj, u, s, entry) == SetNext(adj, u, s, Append(Next_(adj, u, s), entry))
PushPrev(adj, u, s, entry) == SetPrev(adj, u, s, Append(Prev_(adj, u, s), entry))

\* create_links without the mirrored link of a forward-to-forward overlap.
LinkStarts_NoMirror(adj, a, a_strand, b, b_strand) ==
    PushPrev(PushNext(adj, a, a_strand, UnitigStrand(b, b_strand)),
             b, b_strand, UnitigStrand(a, a_strand))

\* The links create_links makes from unitig a to unitig b when the end of
\* a's strand a_strand is the start of b's strand b_strand.
LinkStarts(adj, a, a_strand, b, b_strand) ==
    IF a_strand /\ b_strand
    THEN PushPrev(PushNext(PushPrev(PushNext(adj,
            a, FORWARD, UnitigStrand(b, FORWARD)),
            b, FORWARD, UnitigStrand(a, FORWARD)),
            b, REVERSE, UnitigStrand(a, REVERSE)),
            a, REVERSE, UnitigStrand(b, REVERSE))
    ELSE PushPrev(PushNext(adj, a, a_strand, UnitigStrand(b, b_strand)),
                  b, b_strand, UnitigStrand(a, a_strand))

RECURSIVE LinkAll(_, _, _, _, _, _)
LinkAll(adj, a, a_strand, next_idxs, b_strand, j) ==
    IF j > Len(next_idxs) THEN adj
    ELSE LinkAll(LinkStarts(adj, a, a_strand, next_idxs[j], b_strand),
                 a, a_strand, next_idxs, b_strand, j + 1)

RECURSIVE create_links(_, _, _, _)
create_links(adj, units, k, i) ==
    LET piece_len == k - 1
        ids == DOMAIN units.forward_seq
        starts(seqs, key) ==
            SelectSeq([u \in ids |-> u], LAMBDA u : SubSeq(seqs[u], 1, piece_len) = key)
        ending(seq) == SubSeq(seq, Len(seq) - piece_len + 1, Len(seq))
        ending_forward_seq == ending(units.forward_seq[i])
        ending_reverse_seq == ending(units.reverse_seq[i])
        adj1 == LinkAll(adj, i, FORWARD, starts(units.forward_seq, ending_forward_seq),
                        FORWARD, 1)
        adj2 == LinkAll(adj1, i, FORWARD, starts(units.reverse_seq, ending_forward_seq),
                        REVERSE, 1)
        adj3 == LinkAll(adj2, i, REVERSE, starts(units.forward_seq, ending_reverse_seq),
                        FORWARD, 1)
    IN  IF i > Len(units.forward_seq) THEN adj
        ELSE create_links(adj3, units, k, i + 1)

\* Unitig::trim_overlaps: half_k bytes go from both ends of both strands.
trim_overlaps(seq, k) == SubSeq(seq, k \div 2 + 1, Len(seq) - k \div 2)

\* The graph that from_kmer_graph builds up to its renumbering, or the
\* failure that stops it.  The i-th unitig built is the unitig object i.
from_kmer_graph(k_graph) ==
    LET k == k_graph.k_size
        kmers == k_graph.kmers
        chains == build_unitigs_from_kmer_graph(kmers, k \div 2,
                        iterate_kmers(DOMAIN kmers), 1, {}, <<>>)
        ids == DOMAIN chains.unitigs
        simple == [u \in ids |-> simplify_seqs(kmers, chains.unitigs[u])]
        none == [u \in ids |-> <<>>]
        untrimmed == [forward_seq |-> [u \in ids |-> simple[u].forward_seq],
                      reverse_seq |-> [u \in ids |-> simple[u].reverse_seq]]
    IN  [failure |-> chains.failure,
         k_size |-> k,
         unitigs |-> [u \in ids |-> u],
         depth |-> [u \in ids |-> simple[u].depth],
         adj |-> IF chains.failure # "" THEN
                    [forward_next |-> none, forward_prev |-> none,
                     reverse_next |-> none, reverse_prev |-> none]
                 ELSE create_links([forward_next |-> none, forward_prev |-> none,
                                    reverse_next |-> none, reverse_prev |-> none],
                                   untrimmed, k, 1),
         units |-> [failure |-> "", shifted |-> 0,
                    forward_seq |-> [u \in ids |-> trim_overlaps(simple[u].forward_seq, k)],
                    reverse_seq |-> [u \in ids |-> trim_overlaps(simple[u].reverse_seq, k)],
                    forward_positions |-> [u \in ids |-> simple[u].forward_positions],
                    reverse_positions |-> [u \in ids |-> simple[u].reverse_positions]]]

(***************************************************************************)
(* The steps from assemblies to the reconstructed contigs.  The inputs are *)
(* one or two contigs of up to MaxContigLen bases.                         *)
(***************************************************************************)
MaxContigs   == 2
MaxContigLen == 4
ContigBases  == {"A", "C", "T"}

ContigPool == UNION {[1 .. l -> ContigBases] : l \in 1 .. MaxContigLen}

ContigLists == UNION {[1 .. n -> ContigPool] : n \in 1 .. MaxContigs}

LengthAssert == "reconstructed sequence does not have expected length"

InitBuild ==
    \E k \in KSizes, contigs \in ContigLists :
        /\ assemblies = contigs
        /\ kmer_graph = [k_size |-> k, kmers |-> <<>>]
        /\ assemblies_dir = "dir"
        /\ autocycler_dir = "dir"
        /\ threads = 1
        /\ all_seqs = <<>>
        /\ worker = <<>>
        /\ unitigs = <<>>
        /\ unitig_index = <<>>
        /\ k_size = k
        /\ number = <<>>
        /\ forward_seq = <<>>
        /\ reverse_seq = <<>>
        /\ depth = <<>>
        /\ forward_next = <<>>
        /\ forward_prev = <<>>
        /\ reverse_next = <<>>
        /\ reverse_prev = <<>>
        /\ forward_positions = <<>>
        /\ reverse_positions = <<>>
        /\ sequences = <<>>
        /\ pc = "start"
        /\ idx = 0
        /\ total_shifted_seq = 0
        /\ fixed_starts = {}
        /\ fixed_ends = {}
        /\ failure = ""
        /\ calls = <<>>
        /\ spelled = <<>>
        /\ gfa_files = <<>>

LoadSequences ==
    /\ pc = "start"
    /\ \E seqs \in {load_sequences(assemblies, kmer_graph.k_size)} :
           /\ sequences' = seqs
           /\ failure' = IF \E i \in DOMAIN seqs : seqs[i].forward_seq = <<NoMatch>>
                            THEN NoMatch ELSE ""
    /\ pc' = IF failure' = "" THEN "sequences_loaded" ELSE "failed"
    /\ UNCHANGED <<unitigs, unitig_index, k_size, number, depth, seqVars, adjVars,
                   passVars, calls, spelled, gfa_files, buildVars>>

AddSequences ==
    /\ pc = "sequences_loaded"
    /\ kmer_graph' = [kmer_graph EXCEPT
                        !.kmers = add_sequences(@, sequences, kmer_graph.k_size, 1)]
    /\ pc' = "kmers_added"
    /\ UNCHANGED <<idVars, seqVars, adjVars, passVars, failure, calls, spelled,
                   gfa_files, assemblies, threads, all_seqs, worker,
                   assemblies_dir, autocycler_dir>>

\* from_kmer_graph as a whole: the unitigs, their links, the trimming, the
\* renumbering and check_links.
FromKmerGraph ==
    /\ pc = "kmers_added"
    /\ \E graph \in {from_kmer_graph(kmer_graph)} :
           /\ k_size' = graph.k_size
           /\ depth' = graph.depth
           /\ forward_seq' = graph.units.forward_seq
           /\ reverse_seq' = graph.units.reverse_seq
           /\ forward_positions' = graph.units.forward_positions
           /\ reverse_positions' = graph.units.reverse_positions
           /\ forward_next' = graph.adj.forward_next
           /\ forward_prev' = graph.adj.forward_prev
           /\ reverse_next' = graph.adj.reverse_next
           /\ reverse_prev' = graph.adj.reverse_prev
           /\ unitigs' = StableSort(graph.unitigs)'
           /\ number' = [u \in DOMAIN graph.unitigs |->
                            CHOOSE n \in DOMAIN unitigs' : unitigs'[n] = u]
           /\ unitig_index' = [n \in DOMAIN unitigs' |-> unitigs'[n]]
           /\ failure' = IF graph.failure # "" THEN graph.failure
                         ELSE IF check_links(Adj)' THEN "" ELSE CheckLinksPanic
    /\ pc' = IF failure' = "" THEN "built" ELSE "failed"
    /\ UNCHANGED <<sequences, passVars, calls, spelled, gfa_files, buildVars>>

\* reconstruct_original_sequence for every sequence, on the graph as built.
ReconstructOriginalSequences ==
    /\ pc = "built"
    /\ \E seqs \in {Spelled(Units, unitig_index)} :
           /\ spelled' = seqs
           /\ failure' = IF \E i \in DOMAIN seqs : seqs[i] = <<"!">> THEN StartAssert
                         ELSE IF \E i \in DOMAIN seqs : Len(seqs[i]) # sequences[i].length
                             THEN LengthAssert
                         ELSE ""
    /\ pc' = IF failure' = "" THEN "reconstructed" ELSE "failed"
    /\ UNCHANGED <<idVars, seqVars, adjVars, passVars, calls, gfa_files, buildVars>>

NextBuild ==
    \/ LoadSequences \/ AddSequences \/ FromKmerGraph \/ ReconstructOriginalSequences

SpecBuild == InitBuild /\ [][NextBuild]_vars

(***************************************************************************)
(* Claims about the graph built from assemblies.                           *)
(***************************************************************************)
\* C1: once the sequences of a built graph have been reconstructed, the
\* bytes spelled along the path of every loaded sequence are the bytes of
\* its contig, and as many as its length.
C1_PathsReconstruct ==
    (pc = "reconstructed" \/ failure \in {StartAssert, LengthAssert})
        => \A i \in DOMAIN sequences :
              /\ spelled[i] = Kept(assemblies, kmer_graph.k_size)[i]
              /\ Len(spelled[i]) = sequences[i].length

\* The unitigs build_unitigs_from_kmer_graph makes of the k-mer index.
BuiltUnitigs ==
    build_unitigs_from_kmer_graph(kmer_graph.kmers, kmer_graph.k_size \div 2,
                                  iterate_kmers(DOMAIN kmer_graph.kmers), 1, {},
                                  <<>>).unitigs

\* The chains of k-mers of the built unitigs, both strands.
BuiltChains ==
    {BuiltUnitigs[u].forward_kmers : u \in DOMAIN BuiltUnitigs}
    \cup {BuiltUnitigs[u].reverse_kmers : u \in DOMAIN BuiltUnitigs}

\* The first and the last k bytes of every loaded sequence strand.
FirstKmers ==
    UNION {{SubSeq(sequences[i].forward_seq, 1, kmer_graph.k_size),
            SubSeq(sequences[i].reverse_seq, 1, kmer_graph.k_size)} :
           i \in DOMAIN sequences}

LastKmers == {reverse_complement(kmer) : kmer \in FirstKmers}

\* Two k-mers that follow each other in a chain: each the only neighbour of
\* the other, with no first position on the second or on the reverse
\* complement of the first.
ChainedInIndex(K, K2) ==
    /\ next_kmers(kmer_graph.kmers, K) = <<K2>>
    /\ prev_kmers(kmer_graph.kmers, K2) = <<K>>
    /\ ~first_position(kmer_graph.kmers, K2, kmer_graph.k_size \div 2)
    /\ reverse_complement(K) \in DOMAIN kmer_graph.kmers
    /\ ~first_position(kmer_graph.kmers, reverse_complement(K), kmer_graph.k_size \div 2)

\* C23: in every unitig built from the k-mer index, of two consecutive
\* k-mers the second is the only successor of the first and the first the
\* only predecessor of the second, the second is not the first k-mer of a
\* sequence strand and the first is not the last k-mer of one.
C23_ChainsWithinContigs ==
    pc = "kmers_added" =>
        \A chain \in BuiltChains : \A i \in 1 .. Len(chain) - 1 :
            /\ ChainedInIndex(chain[i], chain[i + 1])
            /\ chain[i + 1] \notin FirstKmers
            /\ chain[i] \notin LastKmers

\* C23 for the indexes that hold every k-mer with its reverse complement.
C23_ChainsOfPairedIndex ==
    (\A kmer \in DOMAIN kmer_graph.kmers :
        reverse_complement(kmer) \in DOMAIN kmer_graph.kmers)
        => C23_ChainsWithinContigs

\* The sequence of a strand of a built unitig before trim_overlaps.
Untrimmed(u, strand) ==
    ChainSeq(IF strand THEN BuiltUnitigs[u].forward_kmers
             ELSE BuiltUnitigs[u].reverse_kmers)

\* The end of a's strand s is the start of b's strand t, over k - 1 bytes.
Overlapping(a, s, b, t) ==
    LET piece_len == kmer_graph.k_size - 1
        from == Untrimmed(a, s)
    IN  SubSeq(from, Len(from) - piece_len + 1, Len(from))
            = SubSeq(Untrimmed(b, t), 1, piece_len)

\* C24: in a graph built from the k-mer index, (B,t) is in the s-next list
\* of A exactly when the last k-1 bytes of A's untrimmed s strand are the
\* first k-1 bytes of B's untrimmed t strand, and then it is there once, with
\* (A,s) once in the t-prev list of B; and check_links passes.
C24_LinksAreOverlaps ==
    (pc = "built" \/ failure = CheckLinksPanic) =>
        /\ failure # CheckLinksPanic
        /\ \A a \in DOMAIN BuiltUnitigs, b \in DOMAIN BuiltUnitigs,
              s \in BOOLEAN, t \in BOOLEAN :
              LET wanted == IF Overlapping(a, s, b, t) THEN 1 ELSE 0
              IN  /\ Count(Next_(Adj, a, s), UnitigStrand(b, t)) = wanted
                  /\ Count(Prev_(Adj, b, t), UnitigStrand(a, s)) = wanted

\* Reached: a built graph with a unitig that loops onto itself and a unitig
\* whose overlap is its own reverse complement.
C24_Witness ==
    /\ pc = "built"
    /\ kmer_graph.k_size = 3
    /\ \E a \in DOMAIN BuiltUnitigs : Overlapping(a, TRUE, a, TRUE)
    /\ \E a \in DOMAIN BuiltUnitigs, b \in DOMAIN BuiltUnitigs :
          Overlapping(a, TRUE, b, TRUE) /\ Overlapping(a, TRUE, a, FALSE)

\* What build_unitigs_from_kmer_graph returns on the k-mer index: the unitigs
\* in the order of their numbers 1, 2, ..., or the failure.
Built ==
    build_unitigs_from_kmer_graph(kmer_graph.kmers, kmer_graph.k_size \div 2,
                                  iterate_kmers(DOMAIN kmer_graph.kmers), 1, {},
                                  <<>>)

\* The places of a k-mer in the built unitigs: unitig number, strand, index.
PlacesOf(kmer) ==
    UNION {{<<u, FORWARD, i>> : i \in {j \in DOMAIN Built.unitigs[u].forward_kmers :
                                        Built.unitigs[u].forward_kmers[j] = kmer}}
           \cup
           {<<u, REVERSE, i>> : i \in {j \in DOMAIN Built.unitigs[u].reverse_kmers :
                                        Built.unitigs[u].reverse_kmers[j] = kmer}}
           : u \in DOMAIN Built.unitigs}

\* The reverse chain of a unitig is its forward chain mirrored.
Mirrored(unitig) ==
    /\ Len(unitig.reverse_kmers) = Len(unitig.forward_kmers)
    /\ \A i \in DOMAIN unitig.forward_kmers :
          unitig.reverse_kmers[Len(unitig.forward_kmers) + 1 - i]
              = reverse_complement(unitig.forward_kmers[i])

\* The lexicographically smallest k-mer of a unitig, over both strands.
SmallestKmer(unitig) ==
    LET all == Range(unitig.forward_kmers) \cup Range(unitig.reverse_kmers)
    IN  CHOOSE a \in all : \A b \in all : a = b \/ SeqLess(a, b)

\* C29: build_unitigs_from_kmer_graph partitions the k-mer index: every
\* indexed k-mer is at one place of one strand of one unitig, its reverse
\* complement at the mirrored place of the other strand of that unitig, and
\* the unitigs are numbered 1, 2, ... by their smallest k-mer.
C29_UnitigsPartitionIndex ==
    pc = "kmers_added" =>
        /\ Built.failure = ""
        /\ \A kmer \in DOMAIN kmer_graph.kmers : Cardinality(PlacesOf(kmer)) = 1
        /\ \A u \in DOMAIN Built.unitigs :
              /\ Mirrored(Built.unitigs[u])
              /\ Range(Built.unitigs[u].forward_kmers) \subseteq DOMAIN kmer_graph.kmers
              /\ \A v \in DOMAIN Built.unitigs :
                    u < v => SeqLess(SmallestKmer(Built.unitigs[u]),
                                     SmallestKmer(Built.unitigs[v]))

\* C29 for the indexes that hold every k-mer with its reverse complement.
C29_PartitionOfPairedIndex ==
    (\A kmer \in DOMAIN kmer_graph.kmers :
        reverse_complement(kmer) \in DOMAIN kmer_graph.kmers)
        => C29_UnitigsPartitionIndex

\* C21: every contig of the input, whatever its length, is loaded as a
\* sequence with an id of its own between 1 and 32767, and once the graph is
\* built the bytes spelled along its path are the bytes of the contig.
C21_EveryContigLoaded ==
    pc # "start" =>
        /\ Len(sequences) = Len(assemblies)
        /\ \A i \in DOMAIN sequences :
              /\ sequences[i].id \in 1 .. 32767
              /\ \A j \in DOMAIN sequences : sequences[j].id = sequences[i].id => j = i
        /\ (pc = "reconstructed" \/ failure \in {StartAssert, LengthAssert})
              => \A i \in DOMAIN sequences : spelled[i] = assemblies[i]

\* C21 for the contigs of k bytes or more, up to the loading.
C21_LongContigsLoaded ==
    pc # "start" =>
        /\ Len(sequences) = Len(Kept(assemblies, kmer_graph.k_size))
        /\ \A i \in DOMAIN sequences :
              /\ sequences[i].id \in 1 .. 32767
              /\ sequences[i].length = Len(Kept(assemblies, kmer_graph.k_size)[i])
              /\ \A j \in DOMAIN sequences : sequences[j].id = sequences[i].id => j = i

\* C14: k-mer pairing: once the sequences have been added, the reverse
\* complement of every k-mer of the index is in the index (so reverse does
\* not fail), the reverse of the reverse of a k-mer is the k-mer, and a
\* k-mer and its reverse complement have the same depth.
C14_KmerPairing ==
    \A kmer \in DOMAIN kmer_graph.kmers :
        /\ reverse_complement(kmer) \in DOMAIN kmer_graph.kmers
        /\ reverse_complement(reverse_complement(kmer)) = kmer
        /\ Len(kmer_graph.kmers[reverse_complement(kmer)]) = Len(kmer_graph.kmers[kmer])

(***************************************************************************)
(* The start of compress: check_settings, create_dir, load_sequences, for  *)
(* k-mer sizes and thread counts around the limits and for every state of  *)
(* the two directories.                                                    *)
(***************************************************************************)
KmerSettings == {0, 10, 11, 12, 13, 500, 501, 502, 503}

ThreadSettings == {0, 1, 2, 100, 101}

InitSettings ==
    \E k \in KmerSettings, t \in ThreadSettings,
       in_dir \in {"absent", "dir"}, out_dir \in {"absent", "file", "dir"} :
        /\ assemblies = <<<<"A", "C">>>>
        /\ kmer_graph = [k_size |-> k, kmers |-> <<>>]
        /\ threads = t
        /\ all_seqs = <<>>
        /\ worker = <<>>
        /\ assemblies_dir = in_dir
        /\ autocycler_dir = out_dir
        /\ unitigs = <<>>
        /\ unitig_index = <<>>
        /\ k_size = 0
        /\ number = <<>>
        /\ forward_seq = <<>>
        /\ reverse_seq = <<>>
        /\ depth = <<>>
        /\ forward_next = <<>>
        /\ forward_prev = <<>>
        /\ reverse_next = <<>>
        /\ reverse_prev = <<>>
        /\ forward_positions = <<>>
        /\ reverse_positions = <<>>
        /\ sequences = <<>>
        /\ pc = "compress"
        /\ idx = 0
        /\ total_shifted_seq = 0
        /\ fixed_starts = {}
        /\ fixed_ends = {}
        /\ failure = ""
        /\ calls = <<>>
        /\ spelled = <<>>
        /\ gfa_files = <<>>

\* The error check_settings quits with, or "" when it returns.
check_settings(in_dir, out_dir, k, t) ==
    IF in_dir # "dir" THEN "directory does not exist"
    ELSE IF out_dir = "file" THEN "exists but is not a directory"
    ELSE IF k < 11 THEN "--kmer cannot be less than 11"
    ELSE IF k > 501 THEN "--kmer cannot be greater than 501"
    ELSE IF t < 1 THEN "--threads cannot be less than 1"
    ELSE IF t > 100 THEN "--threads cannot be greater than 100"
    ELSE ""

CheckSettings ==
    /\ pc = "compress"
    /\ failure' = check_settings(assemblies_dir, autocycler_dir, kmer_graph.k_size, threads)
    /\ pc' = IF failure' = "" THEN "settings_checked" ELSE "failed"
    /\ UNCHANGED <<idVars, seqVars, adjVars, passVars, calls, spelled, gfa_files,
                   buildVars>>

CreateDir ==
    /\ pc = "settings_checked"
    /\ autocycler_dir' = IF autocycler_dir = "absent" THEN "created" ELSE autocycler_dir
    /\ pc' = "start"
    /\ UNCHANGED <<idVars, seqVars, adjVars, passVars, failure, calls, spelled,
                   gfa_files, assemblies, kmer_graph, threads, all_seqs, worker,
                   assemblies_dir>>

NextSettings == CheckSettings \/ CreateDir \/ LoadSequences

SpecSettings == InitSettings /\ [][NextSettings]_vars

\* C22: compress gets past check_settings only with an odd k between 11
\* and 501 and between 1 and 100 threads; otherwise it stops before the
\* output directory is created and before any sequence is loaded.
C22_SettingsChecked ==
    /\ pc \notin {"compress", "failed"} =>
          /\ kmer_graph.k_size % 2 = 1
          /\ kmer_graph.k_size >= 11 /\ kmer_graph.k_size <= 501
          /\ threads >= 1 /\ threads <= 100
    /\ pc = "failed" => autocycler_dir # "created" /\ sequences = <<>>

\* C22 without the oddness of k.
C22_RangesChecked ==
    /\ pc \notin {"compress", "failed"} =>
          /\ kmer_graph.k_size >= 11 /\ kmer_graph.k_size <= 501
          /\ threads >= 1 /\ threads <= 100
    /\ pc = "failed" => autocycler_dir # "created" /\ sequences = <<>>

(***************************************************************************)
(* find_best_match on its own, for every list of up to MaxMatches          *)
(* candidates of up to MaxMatchLen bytes.                                  *)
(***************************************************************************)
MaxMatches == 3
MaxMatchLen == 2
MatchBytes == {".", "A", "C"}

Candidates == UNION {[1 .. l -> MatchBytes] : l \in 1 .. MaxMatchLen}

MatchLists == UNION {[1 .. n -> Candidates] : n \in 1 .. MaxMatches}

InitMatches ==
    /\ \E matches \in MatchLists : calls = <<[matches |-> matches]>>
    /\ pc = "matches"
    /\ assemblies = <<>>
    /\ kmer_graph = [k_size |-> 3, kmers |-> <<>>]
    /\ assemblies_dir = "dir"
    /\ autocycler_dir = "dir"
    /\ threads = 1
    /\ all_seqs = <<>>
    /\ worker = <<>>
    /\ unitigs = <<>>
    /\ unitig_index = <<>>
    /\ k_size = 3
    /\ number = <<>>
    /\ forward_seq = <<>>
    /\ reverse_seq = <<>>
    /\ depth = <<>>
    /\ forward_next = <<>>
    /\ forward_prev = <<>>
    /\ reverse_next = <<>>
    /\ reverse_prev = <<>>
    /\ forward_positions = <<>>
    /\ reverse_positions = <<>>
    /\ sequences = <<>>
    /\ idx = 0
    /\ total_shifted_seq = 0
    /\ fixed_starts = {}
    /\ fixed_ends = {}
    /\ failure = ""
    /\ spelled = <<>>
    /\ gfa_files = <<>>

FindBestMatch ==
    /\ pc = "matches"
    /\ calls' = <<[matches |-> calls[1].matches,
                   best_match |-> find_best_match(calls[1].matches)]>>
    /\ pc' = "matched"
    /\ UNCHANGED <<idVars, seqVars, adjVars, passVars, failure, spelled, gfa_files,
                   buildVars>>

NextMatches == FindBestMatch

SpecMatches == InitMatches /\ [][NextMatches]_vars

\* The candidates of the set with the fewest dots.
FewestDots(set) == {m \in set : \A o \in set : DotCount(m) <= DotCount(o)}

\* The candidates of the set that are most often in the list.
MostOften(set, matches) ==
    {m \in set : \A o \in set : Count(matches, m) >= Count(matches, o)}

\* The first of the set in byte order.
Smallest(set) == CHOOSE m \in set : \A o \in set : o = m \/ SeqLess(m, o)

\* C20: find_best_match returns, of the candidates with the fewest dots,
\* those most often in the list, and of these the first in byte order; it
\* returns the same for the list in any other order.
C20_BestMatch ==
    pc = "matched" =>
        LET matches == calls[1].matches
        IN  /\ calls[1].best_match =
                  Smallest(MostOften(FewestDots(Range(matches)), matches))
            /\ \A order \in Orders(Len(matches)) :
                  find_best_match([i \in DOMAIN matches |-> matches[order[i]]])
                      = calls[1].best_match

\* Reached: the candidate with a dot loses, and the byte order decides
\* between two candidates found once each, for the later one of the list.
C20_Witness ==
    /\ pc = "matched"
    /\ calls[1].matches = << <<"C", "A">>, <<"A", ".">>, <<"A", "C">> >>
    /\ calls[1].best_match = <<"A", "C">>

(***************************************************************************)
(* sequence_end_repair as the thread pool runs it: the bytes of all        *)
(* sequences are copied, then the closure of each sequence runs on one of  *)
(* the threads of the pool, interleaved with the closures running on the   *)
(* other threads.  A closure splices the start, then the end, then sets    *)
(* reverse_seq.                                                            *)
(***************************************************************************)
MaxThreads == 2
MaxRepairContigLen == 3

RepairContigLists ==
    {contigs \in ContigLists : \A i \in DOMAIN contigs : Len(contigs[i]) <= MaxRepairContigLen}

InitRepair ==
    \E k \in KSizes, contigs \in RepairContigLists, pool \in 1 .. MaxThreads :
        /\ assemblies = contigs
        /\ kmer_graph = [k_size |-> k, kmers |-> <<>>]
        /\ assemblies_dir = "dir"
        /\ autocycler_dir = "dir"
        /\ threads = pool
        /\ all_seqs = <<>>
        /\ worker = <<>>
        /\ unitigs = <<>>
        /\ unitig_index = <<>>
        /\ k_size = k
        /\ number = <<>>
        /\ forward_seq = <<>>
        /\ reverse_seq = <<>>
        /\ depth = <<>>
        /\ forward_next = <<>>
        /\ forward_prev = <<>>
        /\ reverse_next = <<>>
        /\ reverse_prev = <<>>
        /\ forward_positions = <<>>
        /\ reverse_positions = <<>>
        /\ sequences = <<>>
        /\ pc = "start"
        /\ idx = 0
        /\ total_shifted_seq = 0
        /\ fixed_starts = {}
        /\ fixed_ends = {}
        /\ failure = ""
        /\ calls = <<>>
        /\ spelled = <<>>
        /\ gfa_files = <<>>

\* The sequences load_sequences makes before the repair.
NewSequences(contigs, k) ==
    LET kept == Kept(contigs, k)
    IN  [i \in DOMAIN kept |->
            new_with_seq(i, kept[i], "assembly.fasta", "contig", Len(kept[i]), k \div 2)]

\* forward_seq and reverse_seq of every sequence, in turn.
RECURSIVE FlatSeqs(_, _)
FlatSeqs(seqs, i) ==
    IF i > Len(seqs) THEN <<>>
    ELSE <<seqs[i].forward_seq, seqs[i].reverse_seq>> \o FlatSeqs(seqs, i + 1)

\* A slip: the closures look at the sequences as they are now.
SearchedSeqs_Live == FlatSeqs(sequences, 1)

\* The byte strings a closure searches for matches.
SearchedSeqs == all_seqs

RECURSIVE MatchesIn(_, _, _)
MatchesIn(pattern, searched, i) ==
    IF i > Len(searched) THEN <<>>
    ELSE find_iter(pattern, searched[i], 1) \o MatchesIn(pattern, searched, i + 1)

overlap_size == kmer_graph.k_size - 1

Running == {i \in DOMAIN worker : worker[i].at \in {"start_spliced", "end_spliced"}}

PushSequences ==
    /\ pc = "start"
    /\ sequences' = NewSequences(assemblies, kmer_graph.k_size)
    /\ pc' = "pushed"
    /\ UNCHANGED <<unitigs, unitig_index, k_size, number, depth, seqVars, adjVars,
                   passVars, failure, calls, spelled, gfa_files, buildVars>>

CopySequences ==
    /\ pc = "pushed"
    /\ all_seqs' = FlatSeqs(sequences, 1)
    /\ worker' = [i \in DOMAIN sequences |-> [at |-> "waiting", end |-> <<>>]]
    /\ pc' = "repairing"
    /\ UNCHANGED <<idVars, seqVars, adjVars, passVars, failure, calls, spelled,
                   gfa_files, assemblies, kmer_graph, threads,
                   assemblies_dir, autocycler_dir>>

SpliceStart(i) ==
    /\ pc = "repairing"
    /\ worker[i].at = "waiting"
    /\ Cardinality(Running) < threads
    /\ LET f == sequences[i].forward_seq
           start == SubSeq(f, 1, overlap_size)
           end == SubSeq(f, Len(f) - overlap_size + 1, Len(f))
           best_match == find_best_match(MatchesIn(start, SearchedSeqs, 1))
       IN  /\ sequences' = [sequences EXCEPT ![i].forward_seq =
                                best_match \o SubSeq(f, overlap_size + 1, Len(f))]
           /\ worker' = [worker EXCEPT ![i] = [at |-> "start_spliced", end |-> end]]
    /\ UNCHANGED <<unitigs, unitig_index, k_size, number, depth, seqVars, adjVars, pc,
                   passVars, failure, calls, spelled, gfa_files, assemblies, kmer_graph,
                   threads, all_seqs, assemblies_dir, autocycler_dir>>

SpliceEnd(i) ==
    /\ pc = "repairing"
    /\ worker[i].at = "start_spliced"
    /\ LET f == sequences[i].forward_seq
           best_match == find_best_match(MatchesIn(worker[i].end, SearchedSeqs, 1))
       IN  sequences' = [sequences EXCEPT ![i].forward_seq =
                            SubSeq(f, 1, Len(f) - overlap_size) \o best_match]
    /\ worker' = [worker EXCEPT ![i].at = "end_spliced"]
    /\ UNCHANGED <<unitigs, unitig_index, k_size, number, depth, seqVars, adjVars, pc,
                   passVars, failure, calls, spelled, gfa_files, assemblies, kmer_graph,
                   threads, all_seqs, assemblies_dir, autocycler_dir>>

SetReverse(i) ==
    /\ pc = "repairing"
    /\ worker[i].at = "end_spliced"
    /\ sequences' = [sequences EXCEPT ![i].reverse_seq =
                        reverse_complement(sequences[i].forward_seq)]
    /\ worker' = [worker EXCEPT ![i].at = "done"]
    /\ UNCHANGED <<unitigs, unitig_index, k_size, number, depth, seqVars, adjVars, pc,
                   passVars, failure, calls, spelled, gfa_files, assemblies, kmer_graph,
                   threads, all_seqs, assemblies_dir, autocycler_dir>>

RepairDone ==
    /\ pc = "repairing"
    /\ \A i \in DOMAIN worker : worker[i].at = "done"
    /\ pc' = "sequences_loaded"
    /\ UNCHANGED <<idVars, seqVars, adjVars, passVars, failure, calls, spelled,
                   gfa_files, buildVars>>

Closure == \E i \in DOMAIN worker : SpliceStart(i) \/ SpliceEnd(i) \/ SetReverse(i)

NextRepair == PushSequences \/ CopySequences \/ Closure \/ RepairDone

SpecRepair == InitRepair /\ [][NextRepair]_vars

\* What a step leaves alone: the copy of the bytes, once made, and every
\* sequence but the one whose closure made the step.
RepairStep ==
    pc = "repairing" =>
        /\ all_seqs' = all_seqs
        /\ \A i \in DOMAIN sequences :
              sequences'[i] # sequences[i] =>
                  /\ worker'[i] # worker[i]
                  /\ \A j \in DOMAIN worker : j # i => worker'[j] = worker[j]

\* C19: whatever the number of threads and the interleaving of the closures,
\* the repair ends with the sequences that the closures give when run one
\* after the other; the matches are searched in the copy made of the
\* sequences before the repair, and a closure changes its own sequence only.
C19_ScheduleIndependent ==
    /\ [](pc = "sequences_loaded" =>
            sequences = load_sequences(assemblies, kmer_graph.k_size))
    /\ [](pc = "repairing" =>
            all_seqs = FlatSeqs(NewSequences(assemblies, kmer_graph.k_size), 1))
    /\ [][RepairStep]_vars

\* Reached: two closures at work on two threads, the second with its start
\* already changed while the first has its end still to search.
C19_Witness ==
    /\ pc = "repairing"
    /\ threads = 2
    /\ Len(worker) = 2
    /\ worker[1].at = "start_spliced"
    /\ worker[2].at = "start_spliced"
    /\ sequences[2].forward_seq # all_seqs[3]

\* forward_seq of the i-th sequence as it was before the repair.
BeforeRepair(i) == all_seqs[2 * i - 1]

\* A window of the copied sequences that agrees with the pattern on the
\* bytes of the pattern that are no dots and has fewer dots than the pattern.
BetterMatchExists(pattern) ==
    \E n \in DOMAIN all_seqs : \E at \in 1 .. Len(all_seqs[n]) - Len(pattern) + 1 :
        LET window == SubSeq(all_seqs[n], at, at + Len(pattern) - 1)
        IN  /\ \A j \in DOMAIN pattern : pattern[j] # "." => window[j] = pattern[j]
            /\ DotCount(window) < DotCount(pattern)

\* The next call of find_best_match of every closure has a match to take.
MatchesToTake ==
    \A i \in DOMAIN worker :
        /\ worker[i].at = "waiting" =>
              MatchesIn(SubSeq(sequences[i].forward_seq, 1, overlap_size),
                        SearchedSeqs, 1) # <<>>
        /\ worker[i].at = "start_spliced" =>
              MatchesIn(worker[i].end, SearchedSeqs, 1) # <<>>

\* C30: the end repair overwrites sentinels only: forward_seq keeps its
\* length and every byte that was no dot before the repair, the dots of an
\* end stay when no match with fewer dots exists, reverse_seq is the reverse
\* complement of forward_seq after the repair, and find_best_match is never
\* called with an empty list.
C30_OnlySentinelsOverwritten ==
    /\ pc = "repairing" => MatchesToTake
    /\ pc \in {"repairing", "sequences_loaded"} =>
          \A i \in DOMAIN sequences :
             LET before == BeforeRepair(i)
                 after == sequences[i].forward_seq
                 start == SubSeq(before, 1, overlap_size)
                 end == SubSeq(before, Len(before) - overlap_size + 1, Len(before))
             IN  /\ Len(after) = Len(before)
                 /\ \A j \in DOMAIN before : before[j] # "." => after[j] = before[j]
                 /\ ~BetterMatchExists(start) => SubSeq(after, 1, overlap_size) = start
                 /\ ~BetterMatchExists(end) =>
                       SubSeq(after, Len(after) - overlap_size + 1, Len(after)) = end
                 /\ pc = "sequences_loaded" =>
                       sequences[i].reverse_seq = reverse_complement(after)

\* Reached: the repair has ended with a sequence whose start sentinel was
\* overwritten by a base and whose end sentinel stayed a dot, the bases of
\* its contig as they were.
C30_Witness ==
    /\ pc = "sequences_loaded"
    /\ kmer_graph.k_size = 3
    /\ \E i \in DOMAIN sequences :
          /\ BeforeRepair(i)[1] = "."
          /\ sequences[i].forward_seq[1] # "."
          /\ sequences[i].forward_seq[Len(sequences[i].forward_seq)] = "."
          /\ sequences[i].reverse_seq # all_seqs[2 * i]

(***************************************************************************)
(* Neighbour queries on the k-mer graph of one or two contigs of up to     *)
(* MaxQueryContigLen bases, for every string of k bases.                   *)
(***************************************************************************)
MaxQueryContigLen == 3

QueryStrings(k) == [1 .. k -> Range(ALPHABET)]

InitKmers ==
    /\ InitBuild
    /\ \A i \in DOMAIN assemblies : Len(assemblies[i]) <= MaxQueryContigLen

KmerQuery(op, kmer, result) == [op |-> op, kmer |-> kmer, result |-> result]

NextKmers ==
    /\ pc = "kmers_added"
    /\ \E kmer \in QueryStrings(kmer_graph.k_size) :
           calls' = <<KmerQuery("next_kmers", kmer, next_kmers(kmer_graph.kmers, kmer))>>
    /\ pc' = "queried"
    /\ UNCHANGED <<idVars, seqVars, adjVars, passVars, failure, spelled, gfa_files,
                   buildVars>>

PrevKmers ==
    /\ pc = "kmers_added"
    /\ \E kmer \in QueryStrings(kmer_graph.k_size) :
           calls' = <<KmerQuery("prev_kmers", kmer, prev_kmers(kmer_graph.kmers, kmer))>>
    /\ pc' = "queried"
    /\ UNCHANGED <<idVars, seqVars, adjVars, passVars, failure, spelled, gfa_files,
                   buildVars>>

NextQueries == LoadSequences \/ AddSequences \/ NextKmers \/ PrevKmers

SpecKmers == InitKmers /\ [][NextQueries]_vars

\* The bytes of a without its first byte are the bytes of b without its last.
Overlap(a, b) == Len(a) = Len(b) /\ Tail(a) = Front(b)

\* The k-mers of this list are indexed, each is wanted, every indexed k-mer
\* that is wanted is in the list, and the list is in increasing byte order.
ExactlyInOrder(list, wanted(_)) ==
    /\ \A i \in DOMAIN list : list[i] \in DOMAIN kmer_graph.kmers /\ wanted(list[i])
    /\ \A key \in DOMAIN kmer_graph.kmers : wanted(key) => key \in Range(list)
    /\ \A i, j \in DOMAIN list : i < j => SeqLess(list[i], list[j])
    /\ Len(list) <= 4

\* C15: next_kmers(s) is exactly the indexed k-mers s[1..]+b with b one of
\* A, C, G, T, in that order of b, and prev_kmers(s) exactly the indexed
\* k-mers b+s[..k-1] in that order, whether or not s is indexed.
C15_NeighbourQueries ==
    pc = "queried" =>
        LET q == calls[1]
            base(key, i) == key[i] \in Range(ALPHABET)
        IN  IF q.op = "next_kmers"
            THEN ExactlyInOrder(q.result,
                    LAMBDA key : Overlap(q.kmer, key) /\ base(key, Len(key)))
            ELSE ExactlyInOrder(q.result,
                    LAMBDA key : Overlap(key, q.kmer) /\ base(key, 1))

\* next_kmers of a 3-mer that is not indexed found two indexed successors.
C15_Witness ==
    /\ pc = "queried"
    /\ calls[1].op = "next_kmers"
    /\ Len(calls[1].kmer) = 3
    /\ calls[1].kmer \notin DOMAIN kmer_graph.kmers
    /\ Len(calls[1].result) = 2

(***************************************************************************)
(* Connected components (connected_components, dfs, connected_unitigs) and *)
(* component_is_circular_loop.                                             *)
(***************************************************************************)
connected_unitigs_ForwardNextOnly(adj, unitig_num) ==
    IF unitig_num \notin DOMAIN unitig_index THEN {}
    ELSE {number[c.unitig] : c \in Range(adj.forward_next[unitig_index[unitig_num]])}

connected_unitigs(adj, unitig_num) ==
    IF unitig_num \notin DOMAIN unitig_index THEN {}
    ELSE LET unitig == unitig_index[unitig_num]
         IN  {number[c.unitig] : c \in Range(adj.forward_next[unitig])
                                      \cup Range(adj.forward_prev[unitig])
                                      \cup Range(adj.reverse_next[unitig])
                                      \cup Range(adj.reverse_prev[unitig])}

\* The numbers of a set in increasing order.
RECURSIVE Ascending(_)
Ascending(set) ==
    IF set = {} THEN <<>>
    ELSE LET least == CHOOSE n \in set : \A m \in set : n <= m
         IN  <<least>> \o Ascending(set \ {least})

\* The while loop of dfs.  The neighbours come out of a HashSet; whatever
\* the order in which they are pushed, the same unitigs are visited.
RECURSIVE dfs(_, _, _, _)
dfs(adj, stack, visited, component) ==
    IF stack = <<>> THEN [visited |-> visited, component |-> component]
    ELSE LET current == stack[Len(stack)]
             neighbors == {n \in connected_unitigs(adj, current) :
                              n \notin visited \cup {current}}
         IN  IF current \in visited
             THEN dfs(adj, Front(stack), visited, component)
             ELSE dfs(adj, Front(stack) \o Ascending(neighbors),
                      visited \cup {current}, Append(component, current))

\* Vec<u32>::cmp: the first difference decides, a prefix comes first.
RECURSIVE ListLess(_, _)
ListLess(a, b) ==
    IF b = <<>> THEN FALSE
    ELSE IF a = <<>> THEN TRUE
    ELSE IF a[1] # b[1] THEN a[1] < b[1]
    ELSE ListLess(Tail(a), Tail(b))

\* components.sort()
RECURSIVE SortLists(_)
SortLists(lists) ==
    IF lists = {} THEN <<>>
    ELSE LET least == CHOOSE a \in lists : \A b \in lists : a = b \/ ListLess(a, b)
         IN  <<least>> \o SortLists(lists \ {least})

\* The loop of connected_components over the unitigs from the i-th on.
RECURSIVE ComponentsFrom(_, _, _, _)
ComponentsFrom(adj, i, visited, components) ==
    IF i > Len(unitigs) THEN components
    ELSE LET unitig_num == number[unitigs[i]]
             found == dfs(adj, <<unitig_num>>, visited, <<>>)
         IN  IF unitig_num \in visited
             THEN ComponentsFrom(adj, i + 1, visited, components)
             ELSE ComponentsFrom(adj, i + 1, found.visited,
                                 Append(components, Ascending(Range(found.component))))

connected_components(adj) ==
    SortLists(Range(ComponentsFrom(adj, 1, {}, <<>>)))

RECURSIVE CircularWalk_NextListsOnly(_, _, _, _, _)
CircularWalk_NextListsOnly(adj, component, num, strand, visited) ==
    IF ~(num # component[1] \/ visited = {})
        THEN Cardinality(visited) = Len(component)
    ELSE IF num \in visited THEN FALSE
    ELSE LET unitig == unitig_index[num]
             next == IF strand THEN adj.forward_next[unitig][1]
                     ELSE adj.reverse_next[unitig][1]
         IN  IF \/ Len(adj.forward_next[unitig]) # 1
                \/ Len(adj.reverse_next[unitig]) # 1
             THEN FALSE
             ELSE CircularWalk_NextListsOnly(adj, component, number[next.unitig],
                                             next.strand, visited \cup {num})

\* The while loop of component_is_circular_loop.
RECURSIVE CircularWalk(_, _, _, _, _)
CircularWalk(adj, component, num, strand, visited) ==
    IF ~(num # component[1] \/ visited = {})
        THEN Cardinality(visited) = Len(component)
    ELSE IF num \in visited THEN FALSE
    ELSE LET unitig == unitig_index[num]
             next == IF strand THEN adj.forward_next[unitig][1]
                     ELSE adj.reverse_next[unitig][1]
         IN  IF \/ Len(adj.forward_next[unitig]) # 1
                \/ Len(adj.forward_prev[unitig]) # 1
                \/ Len(adj.reverse_next[unitig]) # 1
                \/ Len(adj.reverse_prev[unitig]) # 1
             THEN FALSE
             ELSE CircularWalk(adj, component, number[next.unitig], next.strand,
                               visited \cup {num})

component_is_circular_loop(adj, component) ==
    IF component = <<>> THEN FALSE
    ELSE CircularWalk(adj, component, component[1], FORWARD, {})

(***************************************************************************)
(* The component queries on a graph of MaxComponentUnitigs unitigs that    *)
(* got up to MaxLinks links by create_link and then, possibly, lost one by *)
(* delete_link.  A query is asked once and its answer kept in calls.       *)
(***************************************************************************)
MaxComponentUnitigs == 3
MaxLinks == 2

ComponentIds == 1 .. MaxComponentUnitigs

ComponentSigned == {n \in -MaxComponentUnitigs .. MaxComponentUnitigs : n # 0}

\* create_link for each link of the list, in turn.
RECURSIVE CreateLinks(_, _)
CreateLinks(adj, links) ==
    IF links = <<>> THEN adj
    ELSE CreateLinks(create_link(adj, links[1][1], links[1][2]), Tail(links))

LinkLists ==
    UNION {[1 .. n -> ComponentSigned \X ComponentSigned] : n \in 0 .. MaxLinks}

\* The lists of distinct unitig numbers of the graph, in any order.
ComponentLists ==
    {c \in UNION {[1 .. n -> ComponentIds] : n \in 0 .. MaxComponentUnitigs} :
        \A i, j \in DOMAIN c : i # j => c[i] # c[j]}

InitComponents ==
    /\ unitigs = [i \in ComponentIds |-> i]
    /\ unitig_index = [n \in ComponentIds |-> n]
    /\ k_size = 3
    /\ number = [u \in ComponentIds |-> u]
    /\ forward_seq = [u \in ComponentIds |-> <<"A">>]
    /\ reverse_seq = [u \in ComponentIds |-> <<"T">>]
    /\ depth = [u \in ComponentIds |-> 1]
    /\ \E links \in LinkLists :
          \E adj \in {CreateLinks([forward_next |-> [u \in ComponentIds |-> <<>>],
                                   forward_prev |-> [u \in ComponentIds |-> <<>>],
                                   reverse_next |-> [u \in ComponentIds |-> <<>>],
                                   reverse_prev |-> [u \in ComponentIds |-> <<>>]],
                                  links)} :
              /\ forward_next = adj.forward_next
              /\ forward_prev = adj.forward_prev
              /\ reverse_next = adj.reverse_next
              /\ reverse_prev = adj.reverse_prev
    /\ forward_positions = [u \in ComponentIds |-> <<>>]
    /\ reverse_positions = [u \in ComponentIds |-> <<>>]
    /\ sequences = <<>>
    /\ pc = "linked"
    /\ idx = 0
    /\ total_shifted_seq = 0
    /\ fixed_starts = {}
    /\ fixed_ends = {}
    /\ failure = ""
    /\ calls = <<>>
    /\ spelled = <<>>
    /\ gfa_files = <<>>
    /\ assemblies = <<>>
    /\ kmer_graph = [k_size |-> 3, kmers |-> <<>>]
    /\ assemblies_dir = "dir"
    /\ autocycler_dir = "dir"
    /\ threads = 1
    /\ all_seqs = <<>>
    /\ worker = <<>>

DeleteOneLink ==
    /\ pc = "linked"
    /\ \E a \in ComponentSigned, b \in ComponentSigned :
          SetAdj(delete_link(Adj, a, b))
    /\ pc' = "unlinked"
    /\ UNCHANGED <<idVars, seqVars, passVars, failure, calls, spelled, gfa_files,
                   buildVars>>

ComponentQuery(op, component, result) ==
    [op |-> op, component |-> component, result |-> result]

ConnectedComponents ==
    /\ pc \in {"linked", "unlinked"}
    /\ calls' = <<ComponentQuery("connected_components", <<>>,
                                  connected_components(Adj))>>
    /\ pc' = "queried"
    /\ UNCHANGED <<idVars, seqVars, adjVars, passVars, failure, spelled, gfa_files,
                   buildVars>>

ComponentIsCircularLoop ==
    /\ pc \in {"linked", "unlinked"}
    /\ \E component \in ComponentLists :
          calls' = <<ComponentQuery("component_is_circular_loop", component,
                                    component_is_circular_loop(Adj, component))>>
    /\ pc' = "queried"
    /\ UNCHANGED <<idVars, seqVars, adjVars, passVars, failure, spelled, gfa_files,
                   buildVars>>

NextComponents == DeleteOneLink \/ ConnectedComponents \/ ComponentIsCircularLoop

SpecComponents == InitComponents /\ [][NextComponents]_vars

\* Two unitigs with an adjacency entry between them, whichever of the two
\* holds it.
Lists(n) ==
    {forward_next[unitig_index[n]], forward_prev[unitig_index[n]],
     reverse_next[unitig_index[n]], reverse_prev[unitig_index[n]]}

Linked(a, b) ==
    \/ \E list \in Lists(a) : \E i \in DOMAIN list : number[list[i].unitig] = b
    \/ \E list \in Lists(b) : \E i \in DOMAIN list : number[list[i].unitig] = a

\* The unitigs that chains of linked unitigs reach from those of the set.
RECURSIVE Reachable(_)
Reachable(set) ==
    LET more == set \cup {b \in DOMAIN unitig_index : \E a \in set : Linked(a, b)}
    IN  IF more = set THEN set ELSE Reachable(more)

\* C16: connected_components returns each unitig number in exactly one
\* component, two numbers in the same component exactly when chains of links
\* (in either direction) connect them, each component in increasing order
\* and the components in the order of their first elements.
C16_ComponentsPartition ==
    (pc = "queried" /\ calls[1].op = "connected_components") =>
        LET components == calls[1].result
        IN  /\ \A n \in DOMAIN unitig_index :
                  Cardinality({<<i, j>> \in (DOMAIN components) \X ComponentIds :
                                  j \in DOMAIN components[i]
                                  /\ components[i][j] = n}) = 1
            /\ \A i \in DOMAIN components :
                  /\ components[i] # <<>>
                  /\ Range(components[i]) = Reachable({components[i][1]})
                  /\ \A j \in 1 .. Len(components[i]) - 1 :
                        components[i][j] < components[i][j + 1]
            /\ \A i \in 1 .. Len(components) - 1 :
                  components[i][1] < components[i + 1][1]

\* Reached: the components of a graph where two linked unitigs stand before
\* a third one with no links.
C16_Witness ==
    /\ pc = "queried"
    /\ calls[1].op = "connected_components"
    /\ calls[1].result = <<<<1, 3>>, <<2>>>>

EntryCount(u) ==
    <<Len(forward_next[u]), Len(forward_prev[u]), Len(reverse_next[u]),
      Len(reverse_prev[u])>>

\* The walk along next links from the given unitig and strand meets each of
\* the remaining numbers once, and nothing else, before it is at first again.
RECURSIVE WalkVisits(_, _, _, _)
WalkVisits(first, num, strand, remaining) ==
    IF remaining = {} THEN num = first
    ELSE /\ num \in remaining
         /\ LET u == unitig_index[num]
                 next == IF strand THEN forward_next[u][1] ELSE reverse_next[u][1]
             IN  WalkVisits(first, number[next.unitig], next.strand,
                            remaining \ {num})

IsCircularLoop(component) ==
    /\ component # <<>>
    /\ \A n \in Range(component) : EntryCount(unitig_index[n]) = <<1, 1, 1, 1>>
    /\ WalkVisits(component[1], component[1], FORWARD, Range(component))

\* C17: for every list of distinct existing unitig numbers,
\* component_is_circular_loop returns true exactly when every unitig of the
\* list has one entry in each adjacency list and the walk along next links
\* from the first one visits each unitig of the list once before it returns;
\* false for the empty list.
C17_CircularLoopExactly ==
    (pc = "queried" /\ calls[1].op = "component_is_circular_loop") =>
        (calls[1].result <=> IsCircularLoop(calls[1].component))

\* C17, for the lists that hold a connected component of the graph.
C17_CircularLoopOfComponent ==
    (/\ pc = "queried"
     /\ calls[1].op = "component_is_circular_loop"
     /\ \E i \in DOMAIN connected_components(Adj) :
           Range(connected_components(Adj)[i]) = Range(calls[1].component)) =>
        (calls[1].result <=> IsCircularLoop(calls[1].component))

\* Reached: a loop of two unitigs, asked about from its second unitig.
C17_Witness ==
    /\ pc = "queried"
    /\ calls[1].op = "component_is_circular_loop"
    /\ calls[1].component = <<2, 1>>
    /\ calls[1].result
    /\ IsCircularLoop(<<2, 1>>)

(***************************************************************************)
(* renumber_unitigs on its own.  The graphs are up to MaxRenumber unitigs  *)
(* with sequences of RenumberSeqs and depths of RenumberDepths, stored in  *)
(* any order of the vector under any numbers 1..n, with at most one link   *)
(* (and its mirror) between them.                                          *)
(***************************************************************************)
MaxRenumber    == 3
RenumberSeqs   == {<<"A">>, <<"C">>, <<"A", "A">>}
RenumberDepths == {1, 2}

InitRenumber ==
    \E n \in 1 .. MaxRenumber :
      \E seqs \in [1 .. n -> RenumberSeqs], depths \in [1 .. n -> RenumberDepths],
         order \in Orders(n), numbers \in Orders(n) :
        /\ unitigs = order
        /\ number = numbers
        /\ unitig_index = [i \in 1 .. n |-> CHOOSE u \in 1 .. n : numbers[u] = i]
        /\ k_size = 1
        /\ forward_seq = seqs
        /\ reverse_seq = [u \in 1 .. n |-> reverse_complement(seqs[u])]
        /\ depth = depths
        /\ forward_positions = [u \in 1 .. n |-> <<>>]
        /\ reverse_positions = [u \in 1 .. n |-> <<>>]
        /\ sequences = <<>>
        /\ \E link \in {<<0, 0>>} \cup ((1 .. n) \X (1 .. n)) :
              \E adj \in {IF link = <<0, 0>> THEN
                              [forward_next |-> [u \in 1 .. n |-> <<>>],
                               forward_prev |-> [u \in 1 .. n |-> <<>>],
                               reverse_next |-> [u \in 1 .. n |-> <<>>],
                               reverse_prev |-> [u \in 1 .. n |-> <<>>]]
                          ELSE create_link(
                              [forward_next |-> [u \in 1 .. n |-> <<>>],
                               forward_prev |-> [u \in 1 .. n |-> <<>>],
                               reverse_next |-> [u \in 1 .. n |-> <<>>],
                               reverse_prev |-> [u \in 1 .. n |-> <<>>]],
                              link[1], link[2])} :
                  /\ forward_next = adj.forward_next
                  /\ forward_prev = adj.forward_prev
                  /\ reverse_next = adj.reverse_next
                  /\ reverse_prev = adj.reverse_prev
        /\ pc = "renumber"
        /\ idx = 0
        /\ total_shifted_seq = 0
        /\ fixed_starts = {}
        /\ fixed_ends = {}
        /\ failure = ""
        /\ calls = <<>>
        /\ spelled = <<>>
        /\ gfa_files = <<>>
        /\ assemblies = <<>>
        /\ kmer_graph = [k_size |-> 1, kmers |-> <<>>]
        /\ assemblies_dir = "dir"
        /\ autocycler_dir = "dir"
        /\ threads = 1
        /\ all_seqs = <<>>
        /\ worker = <<>>

NextRenumber == renumber_unitigs

SpecRenumber == InitRenumber /\ [][NextRenumber]_vars

(***************************************************************************)
(* Claims about renumber_unitigs.                                          *)
(***************************************************************************)
\* Unitig a comes no later than unitig b by length (decreasing), then
\* forward_seq (increasing), then depth (decreasing).
InOrder(seqs, depths, a, b) ==
    \/ Len(seqs[a]) > Len(seqs[b])
    \/ /\ Len(seqs[a]) = Len(seqs[b])
       /\ \/ SeqLess(seqs[a], seqs[b])
          \/ seqs[a] = seqs[b] /\ depths[a] >= depths[b]

\* What C12 asks of one step.
RenumberStep ==
    pc = "renumber" =>
        /\ {number'[u] : u \in DOMAIN number'} = 1 .. Len(unitigs)
        /\ \A u, v \in DOMAIN number' : number'[u] = number'[v] => u = v
        /\ Range(unitigs') = Range(unitigs) /\ Len(unitigs') = Len(unitigs)
        /\ \A i, j \in DOMAIN unitigs' :
              i < j => InOrder(forward_seq', depth', unitigs'[i], unitigs'[j])
        /\ \A i \in DOMAIN unitigs' : number'[unitigs'[i]] = i
        /\ DOMAIN unitig_index' = 1 .. Len(unitigs)
        /\ \A i \in DOMAIN unitig_index' : number'[unitig_index'[i]] = i
        /\ seqVars' = seqVars /\ adjVars' = adjVars /\ depth' = depth

\* C12: renumber_unitigs leaves the numbers 1..n used once each, the vector
\* ordered by length (decreasing), forward_seq (increasing) and depth
\* (decreasing), unitig_index mapping every number to the unitig that has
\* it, and every sequence and adjacency list as it was.
C12_RenumberPostcondition == [][RenumberStep]_vars

\* A renumbered graph of three unitigs whose order needed all three keys:
\* two lengths, two sequences of one length and two depths of one sequence.
C12_Witness ==
    /\ pc = "done"
    /\ Len(unitigs) = 3
    /\ forward_seq[unitigs[1]] = <<"A", "A">>
    /\ forward_seq[unitigs[2]] = <<"A">>
    /\ forward_seq[unitigs[3]] = <<"C">>
    /\ number[unitigs[3]] = 3
    /\ \E u \in DOMAIN forward_next : forward_next[u] # <<>>

\* The numbers a vector holding the unitigs in this order is given.
Numbering(order) ==
    LET sorted == StableSort(order)
    IN  [u \in Range(order) |-> CHOOSE n \in DOMAIN sorted : sorted[n] = u]

\* What save_gfa writes of a graph whose unitigs have these numbers: the
\* segment of every number and, by number, the next links of both strands.
Serialized(numbers) ==
    LET unitig(i) == CHOOSE u \in DOMAIN numbers : numbers[u] = i
        strands(list) == [j \in DOMAIN list |-> <<numbers[list[j].unitig], list[j].strand>>]
    IN  [i \in 1 .. Len(unitigs) |->
            <<forward_seq[unitig(i)], depth[unitig(i)],
              strands(forward_next[unitig(i)]), strands(reverse_next[unitig(i)])>>]

\* C13 as claimed: the numbers, and so the segments and links that are
\* written, do not depend on the order in which the vector held the unitigs.
C13_OrderIndependent ==
    pc = "done" =>
        \A order \in Orders(Len(unitigs)) :
            Serialized(Numbering(order)) = Serialized(number)

\* No two unitigs agree on forward_seq and depth.
DistinctKeys ==
    \A u, v \in DOMAIN forward_seq :
        (forward_seq[u] = forward_seq[v] /\ depth[u] = depth[v]) => u = v

\* C13: when no two unitigs agree on forward_seq and depth, every unitig
\* gets the same number from every order in which the vector can hold the
\* unitigs, and so the same segments and links are written; unitigs that
\* agree on both are numbered in the order the vector had.
C13_OrderIndependentWithoutTies ==
    (pc = "done" /\ DistinctKeys) =>
        \A order \in Orders(Len(unitigs)) :
            /\ Numbering(order) = number
            /\ Serialized(Numbering(order)) = Serialized(number)

\* Three renumbered and linked unitigs, two of them with one sequence and
\* two depths, get these numbers from every order of the vector.
C13_Witness ==
    /\ pc = "done"
    /\ Len(unitigs) = 3
    /\ DistinctKeys
    /\ forward_seq[unitigs[1]] = forward_seq[unitigs[2]]
    /\ depth[unitigs[1]] > depth[unitigs[2]]
    /\ \E u \in DOMAIN forward_next : forward_next[u] # <<>>
    /\ \A order \in Orders(3) : Numbering(order) = number

C4_ShiftKeepsUnitigs ==
    /\ failure # RemoveRefused
    /\ \A u \in DOMAIN forward_seq :
          /\ Len(forward_seq[u]) >= 1
          /\ reverse_seq[u] = reverse_complement(forward_seq[u])

\* C10: simplify_structure terminates: no expand_repeats pass is stopped or
\* held forever by the guard loop of shift_sequence_1 or shift_sequence_2.
C10_GuardLoopsComplete == failure \notin {GuardPanic, GuardHang}

\* The forward-strand start of unitig u is what it was in the units before:
\* its forward positions have not moved and the bytes differ at the end only.
StartKept(before, after, u) ==
    /\ after.forward_positions[u] = before.forward_positions[u]
    /\ \/ starts_with(after.forward_seq[u], before.forward_seq[u])
       \/ starts_with(before.forward_seq[u], after.forward_seq[u])

EndKept(before, after, u) ==
    /\ after.reverse_positions[u] = before.reverse_positions[u]
    /\ \/ starts_with(after.reverse_seq[u], before.reverse_seq[u])
       \/ starts_with(before.reverse_seq[u], after.reverse_seq[u])

\* What C11 asks of one step.
FixedEndsStayStep ==
    pc \in {"shift_1", "shift_2"} =>
        \A u \in DOMAIN forward_seq :
           /\ number[u] \in fixed_starts => StartKept(Units, Units', u)
           /\ number[u] \in fixed_ends => EndKept(Units, Units', u)

\* C11: fixed ends never move: a shift step of an expand_repeats pass neither
\* adds bytes to nor removes bytes from the forward-strand start of a unitig
\* in fixed_starts or the forward-strand end of a unitig in fixed_ends.
C11_FixedEndsStay == [][FixedEndsStayStep]_vars

\* A shift moved bytes at the free end of a unitig whose other end is fixed,
\* and the fixed end is as it was before the shift.
C11_Witness ==
    /\ pc \in {"shift_1", "shift_2", "pass_end"}
    /\ calls # <<>>
    /\ calls[1].shifted > 0
    /\ \E u \in DOMAIN forward_seq :
          /\ forward_seq[u] # calls[1].before.forward_seq[u]
          /\ \/ number[u] \in fixed_starts /\ StartKept(calls[1].before, Units, u)
             \/ number[u] \in fixed_ends /\ EndKept(calls[1].before, Units, u)

\* The last call of shift_sequence_1 or shift_sequence_2 is on record and the
\* unitigs are those it left.
ShiftOnRecord ==
    calls # <<>> /\ pc \in {"shift_1", "shift_2", "pass_end", "expand_repeats",
                            "renumber", "done", "failed"}

\* The bytes the sources of a call have in common at the destination's side.
CommonOfCall(call) ==
    IF call.op = "shift_sequence_1"
    THEN get_common_end_seq(call.before, call.sources)
    ELSE get_common_start_seq(call.before, call.sources)

\* The positions of the destination that the position guard of a call reads.
GuardPositionsOfCall(call) ==
    IF call.op = "shift_sequence_1"
    THEN call.before.forward_positions[call.destination]
    ELSE call.before.reverse_positions[call.destination]

\* The leave-one-bp guard and the position guard leave no byte of the common
\* sequence: one byte goes if a source is as long as the common sequence, and
\* the position guard takes every byte when a position is within half_k + 1.
NoByteToShift(call) ==
    LET common == CommonOfCall(call)
        kept == IF \E i \in DOMAIN call.sources :
                      Len(call.before.forward_seq[call.sources[i].unitig]) = Len(common)
                THEN Len(common) - 1 ELSE Len(common)
        positions == GuardPositionsOfCall(call)
    IN  \/ kept <= 0
        \/ \E i \in DOMAIN positions : positions[i].pos <= half_k + 1

SeqsAsBefore(call) ==
    /\ forward_seq = call.before.forward_seq
    /\ reverse_seq = call.before.reverse_seq

\* C25: when the leave-one-bp guard and the position guard leave no byte to
\* shift, a call of shift_sequence_1 or shift_sequence_2 returns 0 and has
\* modified no unitig sequence, and it neither fails nor loops forever.
C25_NothingLeftReturnsZero ==
    (ShiftOnRecord /\ NoByteToShift(calls[1])) =>
        /\ failure \notin {GuardPanic, GuardHang}
        /\ calls[1].shifted = 0
        /\ SeqsAsBefore(calls[1])

\* When the guard loop of such a call does come to an end, the call returns
\* 0 and has modified no unitig sequence.
C25_ZeroWhenGuardEnds ==
    (ShiftOnRecord /\ NoByteToShift(calls[1])
        /\ failure \notin {GuardPanic, GuardHang}) =>
        /\ calls[1].shifted = 0
        /\ SeqsAsBefore(calls[1])

\* Every sequence has one (unitig, strand) with a forward-path position at
\* the start offset of the sequence.
UniqueStarts(units) ==
    \A i \in DOMAIN sequences :
        Cardinality(starting_unitigs(units, sequences[i].id)) = 1

\* The unitig object and strand at which the path of each sequence begins.
PathStarts(units) ==
    [i \in DOMAIN sequences |->
        {<<unitigs[t[1]], t[2]>> : t \in starting_unitigs(units, sequences[i].id)}]

\* What C26 asks of one shift step.
PathStartsStayStep ==
    pc \in {"shift_1", "shift_2"} => PathStarts(Units') = PathStarts(Units)

\* C26: after construction and after every shift of simplify_structure each
\* sequence id has exactly one (unitig, strand) with a forward-path position
\* at the start offset, so the assertion of find_starting_unitig never fails
\* and the path of a sequence begins at the same unitig and strand as before.
C26_UniquePathStart ==
    /\ [](pc \in {"built", "expand_repeats", "shift_1", "shift_2", "pass_end",
                  "renumber", "done", "reconstructed"} => UniqueStarts(Units))
    /\ [](failure # StartAssert)
    /\ [][PathStartsStayStep]_vars

\* The common bytes a call moved: the shifted bytes of the common sequence
\* that lie next to the destination.
MovedByCall(call) ==
    LET common == CommonOfCall(call)
    IN  IF call.op = "shift_sequence_1"
        THEN SubSeq(common, Len(common) - call.shifted + 1, Len(common))
        ELSE SubSeq(common, 1, call.shifted)

ends_with(seq, suffix) ==
    /\ Len(suffix) <= Len(seq)
    /\ SubSeq(seq, Len(seq) - Len(suffix) + 1, Len(seq)) = suffix

\* The i-th source strand of a call has lost the moved bytes, and nothing
\* else, at its end next to the destination.
SourceLost(call, i) ==
    LET u == call.sources[i].unitig
        strand == call.sources[i].strand
        before == get_seq(call.before, u, strand)
        after == get_seq(Units, u, strand)
        times == Cardinality({j \in DOMAIN call.sources : call.sources[j].unitig = u})
    IN  /\ Len(after) = Len(before) - times * call.shifted
        /\ IF call.op = "shift_sequence_1"
               THEN ends_with(before, after \o MovedByCall(call))
               ELSE starts_with(before, MovedByCall(call) \o after)

\* The destination of a call has gained the moved bytes at its end next to
\* the sources.
DestinationGained(call) ==
    forward_seq[call.destination] =
        IF call.op = "shift_sequence_1"
        THEN MovedByCall(call) \o call.before.forward_seq[call.destination]
        ELSE call.before.forward_seq[call.destination] \o MovedByCall(call)

RECURSIVE TotalLength(_, _)
TotalLength(seqs, i) ==
    IF i = 0 THEN 0 ELSE TotalLength(seqs, i - 1) + Len(seqs[unitigs[i]])

\* C27: a shift of n > 0 bytes from m >= 2 sources is a pure transfer: each
\* source strand has lost the n common bytes at its end next to the
\* destination, the destination has gained those n bytes at its end next to
\* the sources, and the total length of the unitigs is (m - 1) * n less.
C27_ShiftIsTransfer ==
    (ShiftOnRecord /\ failure = "" /\ calls[1].shifted > 0
        /\ Len(calls[1].sources) >= 2) =>
        /\ \A i \in DOMAIN calls[1].sources : SourceLost(calls[1], i)
        /\ DestinationGained(calls[1])
        /\ TotalLength(forward_seq, Len(unitigs))
             = TotalLength(calls[1].before.forward_seq, Len(unitigs))
               - (Len(calls[1].sources) - 1) * calls[1].shifted

\* Reached: an in-shift and an out-shift of one byte or more from two sources,
\* a source on its reverse strand among them.
C27_Witness ==
    /\ ShiftOnRecord /\ failure = ""
    /\ calls[1].shifted > 0
    /\ Len(calls[1].sources) >= 2
    /\ \E i \in DOMAIN calls[1].sources : ~calls[1].sources[i].strand
    /\ forward_seq # calls[1].before.forward_seq

\* simplify_structure on the graphs of two paths of two unitigs each, over
\* MaxUnitigs unitigs of two bases.
StructureWalkLists(n) ==
    {<<a, b>> : a \in [1 .. 2 -> Signed(n)], b \in [1 .. 2 -> Signed(n)]}

StructureSeqs == [1 .. 2 -> Bases]

InitStructure ==
    \E walks \in StructureWalkLists(MaxUnitigs) :
        /\ Accepted(MaxUnitigs, walks)
        /\ \E k \in KSizes, segs \in [1 .. MaxUnitigs -> StructureSeqs] :
              \E graph \in {from_gfa_lines(GfaLines(k, segs, walks))} :
                  /\ Loaded(graph)
                  /\ kmer_graph = [k_size |-> k, kmers |-> <<>>]
                  /\ assemblies_dir = "dir"
                  /\ autocycler_dir = "dir"
                  /\ threads = 1
                  /\ all_seqs = <<>>
                  /\ worker = <<>>
        /\ gfa_files = <<>>
        /\ assemblies = <<>>
        /\ pc = "built"
        /\ idx = 0
        /\ total_shifted_seq = 0
        /\ fixed_starts = {}
        /\ fixed_ends = {}
        /\ failure = ""
        /\ calls = <<>>
        /\ spelled = <<>>

\* simplify_structure alone: its passes, and the renumbering at its end.
NextStructure == ExpandRepeats \/ Shift1 \/ Shift2 \/ PassEnd \/ renumber_unitigs

SpecStructure == InitStructure /\ [][NextStructure]_vars

\* What C28 asks of one step of simplify_structure.
SimplifyKeepsLinksStep ==
    (/\ pc \in {"built", "expand_repeats", "shift_1", "shift_2", "pass_end", "renumber"}
     /\ pc' \in {"expand_repeats", "shift_1", "shift_2", "pass_end", "renumber",
                 "done", "failed"}) =>
        /\ Len(unitigs') = Len(unitigs)
        /\ Range(unitigs') = Range(unitigs)
        /\ DOMAIN unitig_index' = DOMAIN unitig_index
        /\ Adj' = Adj
        /\ check_links(Adj) => check_links(Adj)'

LastCall == calls[Len(calls)]

AllLists(adj) ==
    {adj.forward_next[u] : u \in Ids} \cup {adj.forward_prev[u] : u \in Ids} \cup
    {adj.reverse_next[u] : u \in Ids} \cup {adj.reverse_prev[u] : u \in Ids}

SameBags(adj1, adj2) ==
    \A u \in Ids :
        /\ SameBag(adj1.forward_next[u], adj2.forward_next[u])
        /\ SameBag(adj1.forward_prev[u], adj2.forward_prev[u])
        /\ SameBag(adj1.reverse_next[u], adj2.reverse_next[u])
        /\ SameBag(adj1.reverse_prev[u], adj2.reverse_prev[u])

\* The link a -> b, by signed numbers, is in none of the lists that hold it
\* or its mirror -b -> -a.
LinkGone(adj, a, b) ==
    /\ ~link_exists(adj, Abs(a), StrandOf(a), Abs(b), StrandOf(b))
    /\ ~link_exists_prev(adj, Abs(a), StrandOf(a), Abs(b), StrandOf(b))
    /\ ~link_exists(adj, Abs(b), ~StrandOf(b), Abs(a), ~StrandOf(a))
    /\ ~link_exists_prev(adj, Abs(b), ~StrandOf(b), Abs(a), ~StrandOf(a))

\* C5: after any sequence of create_link and delete_link calls on existing
\* unitigs, starting from a graph on which check_links passes, check_links
\* still passes.
C5_MirrorEdgeInvariant == check_links(Adj)

\* C6: after delete_link(a, b), link_exists and link_exists_prev are both
\* false for a -> b and for its mirror -b -> -a (here even when the call was
\* made on a graph on which check_links passed).
C6_DeleteLinkPostcondition ==
    (/\ Len(calls) > 0
     /\ LastCall.op = "delete_link"
     /\ check_links(LastCall.before))
    => LinkGone(Adj, LastCall.a, LastCall.b)

\* C7: when the link a -> b is absent, create_link(a, b) followed by
\* delete_link(a, b) leaves all four adjacency lists of every unitig equal,
\* as multisets, to what they were before the two calls (here even when the
\* graph before the two calls passed check_links).
C7_CreateThenDeleteIsNoOp ==
    (/\ Len(calls) >= 2
     /\ calls[Len(calls) - 1].op = "create_link"
     /\ LastCall.op = "delete_link"
     /\ LastCall.a = calls[Len(calls) - 1].a
     /\ LastCall.b = calls[Len(calls) - 1].b
     /\ check_links(calls[Len(calls) - 1].before)
     /\ ~link_exists(calls[Len(calls) - 1].before, Abs(LastCall.a),
                     StrandOf(LastCall.a), Abs(LastCall.b), StrandOf(LastCall.b)))
    => SameBags(Adj, calls[Len(calls) - 1].before)

\* Every create_link call so far was made for a link that link_exists
\* reported absent.
CreatedOnlyAbsentLinks ==
    \A i \in DOMAIN calls :
        calls[i].op = "create_link" =>
            ~link_exists(calls[i].before, Abs(calls[i].a), StrandOf(calls[i].a),
                         Abs(calls[i].b), StrandOf(calls[i].b))

NoRepeatedEntries(adj) ==
    \A list \in AllLists(adj) :
        \A i, j \in DOMAIN list : i # j => list[i] # list[j]

EntriesInIndex(adj) ==
    \A list \in AllLists(adj) :
        \A i \in DOMAIN list : number[list[i].unitig] \in DOMAIN unitig_index

\* C8: after any sequence of create_link and delete_link calls on a graph
\* whose lists have no repeated entries, no adjacency list holds the same
\* (unitig, strand) entry twice and every entry refers to a unitig of
\* unitig_index (here even when every create_link was called for a link that
\* link_exists reported absent).
C8_NoRepeatedEntries ==
    CreatedOnlyAbsentLinks => (NoRepeatedEntries(Adj) /\ EntriesInIndex(Adj))

\* C9: delete_link(a, b) on a link that does not exist changes nothing: the
\* adjacency lists, the unitig count, the total length and get_link_count are
\* unchanged (here even when the graph before the call passed check_links).
C9_DeleteMissingLinkIsNoOp ==
    (/\ Len(calls) > 0
     /\ LastCall.op = "delete_link"
     /\ check_links(LastCall.before)
     /\ ~link_exists(LastCall.before, Abs(LastCall.a), StrandOf(LastCall.a),
                     Abs(LastCall.b), StrandOf(LastCall.b)))
    => (/\ Adj = LastCall.before
        /\ Len(unitigs) = NumUnitigs
        /\ get_total_length = LastCall.total_length
        /\ get_link_count(Adj) = LastCall.link_count)

====
